---- MODULE Spec2Model ----
(***************************************************************************)
(* A model of mcap_to_mp4/cli.py: the VFR duration planner                 *)
(* (build_vfr_durations_ns) and the two-pass conversion (convert_to_mp4).  *)
(*                                                                         *)
(* Spec      : one call of convert_to_mp4 over a bounded log.              *)
(* SpecLive  : Spec with the spinner thread scheduled fairly.               *)
(* SpecLong  : one call of convert_to_mp4 over a log of                    *)
(*             2 * MEMORY_CHECK_INTERVAL frames.                           *)
(* SpecPlan  : one direct call of build_vfr_durations_ns on a bounded      *)
(*             timestamp list (as the unit tests call it).                 *)
(* SpecTopics: one call of get_image_topic_list on a bounded summary.      *)
(* SpecEncode: one direct call of encode_vfr on bounded lists.             *)
(* SpecTerm  : one call of convert_to_mp4 over a short log or a log of     *)
(*             MEMORY_CHECK_INTERVAL frames, both threads scheduled        *)
(*             fairly.                                                     *)
(* SpecWide  : one direct call of build_vfr_durations_ns on timestamps     *)
(*             wide enough for the double-precision product of line 157    *)
(*             to round.                                                   *)
(***************************************************************************)
EXTENDS Integers, Sequences, FiniteSets, TLC

(***************************************************************************)
(* Program constants (cli.py lines 26-30).                                 *)
(***************************************************************************)
NANOSECONDS_PER_SECOND == 1000000000
DEFAULT_FALLBACK_FPS == 30
MAX_GAP_MULTIPLIER == 10

(***************************************************************************)
(* Bounds of the planner's inputs: timestamps are drawn from a low band    *)
(* 0..MaxSmallTs and a high band BigTs..BigTs+MaxSmallTs, so that lists    *)
(* hold zero, negative and small deltas as well as gaps above              *)
(* MAX_GAP_MULTIPLIER times the typical delta.                             *)
(***************************************************************************)
MaxPlanLen == 4
MaxSmallTs == 2
BigTs == 11

(***************************************************************************)
(* Bounds of the logs convert_to_mp4 is run on.                            *)
(***************************************************************************)
MaxMsgs == 3
MaxTime == 2

(***************************************************************************)
(* Bound of the summaries get_image_topic_list is run on.                  *)
(***************************************************************************)
MaxChannels == 3

(***************************************************************************)
(* Bound of the lists encode_vfr is called with.                           *)
(***************************************************************************)
MaxEncodeLen == 3

(***************************************************************************)
(* Bound of the lists of wide timestamps (SpecWide).                       *)
(***************************************************************************)
MaxWideLen == 4

MEMORY_CHECK_INTERVAL == 100

VARIABLES
    \* ---- the inputs of convert_to_mp4
    log,                    \* the messages of the input file, in file order
    timestamp_timing,       \* the timestamp_timing argument
    \* ---- the main thread
    pc,                     \* its position in convert_to_mp4
    outcome,                \* how the call ended ("running" until it does)
    exception,              \* the exception raised ("none" when none was)
    \* ---- the log reader
    pos,                    \* messages the current pass has consumed
    opens,                  \* times the input file was opened
    handle_open,            \* a file handle on the input is open
    \* ---- the Spinner
    spinner_count,          \* Spinner._count
    stop_event,             \* Spinner._stop_event
    spinner_thread,         \* Spinner._thread: "none", "alive" or "dead"
    spin_shown,             \* the count the live spinner thread read last
    \* ---- pass 1 and the timing gate
    timestamps,             \* local timestamps
    total_frames,           \* local total_frames
    video_fps,              \* local video_fps: 10^9 * num / den
    \* ---- pass 2
    frame_idx,
    decoded,                \* calls of _decode_frame so far
    used_encoding,
    img_channel,
    warned_missing_stamp,
    stamp_warnings,         \* times the missing-stamp warning was printed
    current_memory_mb,
    memory_warning_shown,
    prompts,                \* times the low-memory prompt was issued
    mem_checks,             \* what each call of _get_peak_memory_mb found
    \* ---- the VFR branch
    temp_dir,               \* "none", "exists" or "removed"
    temp_files,             \* the frame files in temp_dir
    image_paths,
    timestamps_ns,
    encode_calls,           \* the arguments of each encode_vfr call
    manifest,               \* the lines written to list.txt
    ffmpeg_runs,            \* times the ffmpeg subprocess was run
    ffmpeg_input,           \* the lines of list.txt when ffmpeg was run
    \* ---- the CFR branch
    video_writer,           \* "none", "open" or "closed"
    writer_fps,             \* the fps get_writer was called with
    appended,               \* the frames handed to append_data, in order
    closes,                 \* times video_writer.close() was called
    \* ---- the file system
    output_file,            \* output_file: "absent", "partial" or "complete"
    \* ---- get_image_topic_list
    summary,                \* what reader.get_summary() returns
    topic_pc,               \* position inside get_image_topic_list
    channel_pos,            \* channels the loop of line 107 has consumed
    topic_list,             \* local topic_list
    topic_result,           \* the list it returns
    \* ---- build_vfr_durations_ns
    vfr_pc,                 \* position inside build_vfr_durations_ns
    vfr_ts,                 \* its argument timestamps_ns
    raw_deltas,             \* local raw_deltas
    reference_duration_ns,  \* local reference_duration_ns
    durations_ns,           \* local durations_ns, the list it returns
    \* ---- build_vfr_durations_ns on timestamps of full width
    wide_pc,                \* "idle", "call" or "ret"
    wide_ts,                \* its argument timestamps_ns
    wide_durations          \* the list it returns

inputVars == <<log, timestamp_timing>>
ctlVars == <<pc, outcome, exception>>
readerVars == <<pos, opens, handle_open>>
spinnerVars == <<spinner_count, stop_event, spinner_thread, spin_shown>>
scanVars == <<timestamps, total_frames, video_fps>>
frameVars == <<frame_idx, decoded, used_encoding, img_channel,
               warned_missing_stamp, stamp_warnings>>
memVars == <<current_memory_mb, memory_warning_shown, prompts, mem_checks>>
vfrVars == <<temp_dir, temp_files, image_paths, timestamps_ns,
             encode_calls, manifest, ffmpeg_runs, ffmpeg_input>>
cfrVars == <<video_writer, writer_fps, appended, closes>>
outVars == <<output_file>>
topicVars == <<summary, topic_pc, channel_pos, topic_list, topic_result>>
planVars == <<vfr_pc, vfr_ts, raw_deltas, reference_duration_ns, durations_ns>>
convertVars == <<inputVars, ctlVars, readerVars, spinnerVars, scanVars,
                 frameVars, memVars, vfrVars, cfrVars, outVars>>

wideVars == <<wide_pc, wide_ts, wide_durations>>

vars == <<convertVars, planVars, topicVars, wideVars>>

(***************************************************************************)
(* Sequence helpers.                                                       *)
(***************************************************************************)
\* sum(s), by halves
RECURSIVE SumSeq(_)
SumSeq(s) ==
    IF Len(s) = 0 THEN 0
    ELSE IF Len(s) = 1 THEN s[1]
    ELSE LET h == Len(s) \div 2
         IN  SumSeq(SubSeq(s, 1, h)) + SumSeq(SubSeq(s, h + 1, Len(s)))

\* the place of s[i] in the stable ascending order of s
RankIn(s, i) ==
    Cardinality({j \in 1..Len(s) : s[j] < s[i] \/ (s[j] = s[i] /\ j <= i)})

\* Python's sorted() on a list of integers (the list is evaluated once).
sorted(s) ==
    LET ordered(v) ==
            [k \in 1..Len(v) |-> v[CHOOSE i \in 1..Len(v) : RankIn(v, i) = k]]
    IN  CHOOSE r \in {ordered(v) : v \in {s}} : TRUE

\* line 150 with d >= 0
IsNotNegative(d) == d >= 0

\* line 150: d > 0
IsPositive(d) == d > 0

(***************************************************************************)
(* build_vfr_durations_ns (cli.py lines 141-174).                          *)
(***************************************************************************)
\* line 145 with the quotient rounded up
fallback_duration_ceil ==
    (NANOSECONDS_PER_SECOND + DEFAULT_FALLBACK_FPS - 1) \div DEFAULT_FALLBACK_FPS

\* int(NANOSECONDS_PER_SECOND / DEFAULT_FALLBACK_FPS): a float division
\* truncated by int(); 1e9 / 30.0 = 33333333.33..., truncated downwards.
fallback_duration_ns == NANOSECONDS_PER_SECOND \div DEFAULT_FALLBACK_FPS

\* [ts[i + 1] - ts[i] for i in range(len(ts) - 1)]
RawDeltas(ts) == [i \in 1..(Len(ts) - 1) |-> ts[i + 1] - ts[i]]

\* [d for d in raw_deltas if d > 0]
PositiveDeltas(deltas) == SelectSeq(deltas, IsPositive)

\* statistics.mean of a non-empty list of positive integers under int():
\* the exact quotient truncated to an integer.
MeanTruncated(data) == SumSeq(data) \div Len(data)

\* int(statistics.median(data)) for a non-empty list of positive integers:
\* the middle element of the sorted data, or the half sum of the two middle
\* elements (a float x.0 or x.5) truncated by int().
MedianTruncated(data) ==
    LET s == sorted(data)
        n == Len(s)
        i == n \div 2
    IN  IF n % 2 = 1 THEN s[i + 1] ELSE (s[i] + s[i + 1]) \div 2

\* lines 151-153
InitialReference(deltas) ==
    LET positive_deltas == PositiveDeltas(deltas)
    IN  IF positive_deltas # <<>> THEN MedianTruncated(positive_deltas)
        ELSE fallback_duration_ns

Max(a, b) == IF a >= b THEN a ELSE b

\* line 157: max(int(reference * MAX_GAP_MULTIPLIER), reference).  The
\* product is a float product; it is exact for every reference below
\* 2^53 / 10, which covers the bounded inputs of Spec and SpecPlan.
\* WideMaxGapNs below is the same line on references of full width.
MaxGapNs(reference) == Max(reference * MAX_GAP_MULTIPLIER, reference)

\* lines 159-168 with a strict test in place of raw_delta <= 0
AdjustedDeltaStrict(raw_delta, reference) ==
    IF raw_delta < 0 THEN reference
    ELSE IF raw_delta > MaxGapNs(reference) THEN MaxGapNs(reference)
    ELSE raw_delta

\* lines 159-168
AdjustedDelta(raw_delta, reference) ==
    IF raw_delta <= 0 THEN reference
    ELSE IF raw_delta > MaxGapNs(reference) THEN MaxGapNs(reference)
    ELSE raw_delta

\* line 171 without the update: the reference stays the initial estimate
KeepReference(adjusted_delta, reference) == reference

\* line 171: reference_duration_ns = adjusted_delta
NextReference(adjusted_delta, reference) == adjusted_delta

\* line 173 without the trailing duration
ReturnDeltasOnly(durations, reference) == durations

\* line 173: durations_ns.append(reference_duration_ns)
AppendTrailing(durations, reference) == Append(durations, reference)

\* lines 142-153: the early returns and the initial reference
BuildVfrEnter ==
    /\ vfr_pc = "call"
    /\ IF Len(vfr_ts) = 0
       THEN /\ durations_ns' = <<>>
            /\ vfr_pc' = "ret"
            /\ UNCHANGED <<raw_deltas, reference_duration_ns>>
       ELSE IF Len(vfr_ts) = 1
       THEN /\ durations_ns' = <<fallback_duration_ns>>
            /\ vfr_pc' = "ret"
            /\ UNCHANGED <<raw_deltas, reference_duration_ns>>
       ELSE /\ raw_deltas' = RawDeltas(vfr_ts)
            /\ reference_duration_ns' = InitialReference(RawDeltas(vfr_ts))
            /\ durations_ns' = <<>>
            /\ vfr_pc' = "loop"
    /\ UNCHANGED <<vfr_ts, convertVars, wideVars, topicVars>>

\* lines 156-171: one iteration of the loop over raw_deltas
BuildVfrStep ==
    /\ vfr_pc = "loop"
    /\ Len(durations_ns) < Len(raw_deltas)
    /\ LET raw_delta == raw_deltas[Len(durations_ns) + 1]
           adjusted_delta == AdjustedDelta(raw_delta, reference_duration_ns)
       IN  /\ durations_ns' = Append(durations_ns, adjusted_delta)
           /\ reference_duration_ns' =
                  NextReference(adjusted_delta, reference_duration_ns)
    /\ UNCHANGED <<vfr_pc, vfr_ts, raw_deltas, convertVars, wideVars, topicVars>>

\* lines 173-174: the trailing duration and the return
BuildVfrReturn ==
    /\ vfr_pc = "loop"
    /\ Len(durations_ns) = Len(raw_deltas)
    /\ durations_ns' = AppendTrailing(durations_ns, reference_duration_ns)
    /\ vfr_pc' = "ret"
    /\ UNCHANGED <<vfr_ts, raw_deltas, reference_duration_ns, convertVars, wideVars, topicVars>>

(***************************************************************************)
(* build_vfr_durations_ns on timestamps of full width.  Nanosecond stamps  *)
(* are 64-bit and line 157 multiplies in double precision, so an integer   *)
(* is kept here as two digits in base WideBase: w stands for               *)
(* w.hi * WideBase + w.lo with 0 <= w.lo < WideBase (w.hi has the sign).   *)
(***************************************************************************)
WideBase == 2^27

\* the bits of the significand of a Python float (an IEEE 754 double)
DoubleBits == 53

Wide(hi, lo) == [hi |-> hi, lo |-> lo]
WideOf(n) == Wide(n \div WideBase, n % WideBase)

WideAdd(a, b) ==
    LET lo == a.lo + b.lo
    IN  IF lo >= WideBase THEN Wide(a.hi + b.hi + 1, lo - WideBase)
        ELSE Wide(a.hi + b.hi, lo)

WideSub(a, b) ==
    LET lo == a.lo - b.lo
    IN  IF lo < 0 THEN Wide(a.hi - b.hi - 1, lo + WideBase)
        ELSE Wide(a.hi - b.hi, lo)

\* w * k for a small k
WideTimes(w, k) ==
    LET p == w.lo * k
    IN  Wide(w.hi * k + p \div WideBase, p % WideBase)

WideLess(a, b) == a.hi < b.hi \/ (a.hi = b.hi /\ a.lo < b.lo)
WideLeq(a, b) == ~WideLess(b, a)
WideMax(a, b) == IF WideLess(a, b) THEN b ELSE a

\* the gap between consecutive doubles at w >= 0: 1 below 2^DoubleBits,
\* doubling with every further bit
RECURSIVE UlpOfHi(_)
UlpOfHi(hi) ==
    IF hi < 2^(DoubleBits - 27) THEN 1 ELSE 2 * UlpOfHi(hi \div 2)

Ulp(w) == UlpOfHi(w.hi)

\* n rounded to a multiple of u, a tie going to the even multiple
RoundHalfEven(n, u) ==
    LET q == n \div u
        r == n % u
    IN  IF 2 * r < u THEN q * u
        ELSE IF 2 * r > u THEN (q + 1) * u
        ELSE IF q % 2 = 0 THEN q * u
        ELSE (q + 1) * u

\* float(w) for w >= 0: the nearest double, ties to the even significand
float(w) ==
    LET lo == RoundHalfEven(w.lo, Ulp(w))
    IN  IF lo = WideBase THEN Wide(w.hi + 1, 0) ELSE Wide(w.hi, lo)

\* line 149
WideRawDeltas(ts) == [i \in 1..(Len(ts) - 1) |-> WideSub(ts[i + 1], ts[i])]

\* line 150: d > 0
WideIsPositive(d) == d.hi > 0 \/ (d.hi = 0 /\ d.lo > 0)
WidePositiveDeltas(deltas) == SelectSeq(deltas, WideIsPositive)

WideRankIn(s, i) ==
    Cardinality({j \in 1..Len(s) : WideLess(s[j], s[i])
                                   \/ (s[j] = s[i] /\ j <= i)})

WideSorted(s) ==
    [k \in 1..Len(s) |-> s[CHOOSE i \in 1..Len(s) : WideRankIn(s, i) = k]]

\* w \div 2 for w >= 0
WideHalf(w) ==
    Wide(w.hi \div 2, (w.hi % 2) * (WideBase \div 2) + w.lo \div 2)

\* int((a + b) / 2) for positive a and b: the true quotient rounded to the
\* nearest double, then truncated.  An odd sum has the quotient k + 1/2,
\* which is a double only below 2^(DoubleBits - 1).
HalfSumTruncated(a, b) ==
    LET s == WideAdd(a, b)
        k == WideHalf(s)
        u == Ulp(k)
        r == k.lo % u
    IN  IF s.lo % 2 = 0 THEN float(k)
        ELSE IF k.hi < 2^(DoubleBits - 28) THEN k
        ELSE IF u = 1
        THEN IF k.lo % 2 = 0 THEN k ELSE WideAdd(k, WideOf(1))
        ELSE IF 2 * r < u THEN WideSub(k, WideOf(r))
        ELSE WideAdd(WideSub(k, WideOf(r)), WideOf(u))

\* int(statistics.median(data)) for a non-empty list of positive integers
WideMedianTruncated(data) ==
    LET s == WideSorted(data)
        n == Len(s)
        i == n \div 2
    IN  IF n % 2 = 1 THEN s[i + 1] ELSE HalfSumTruncated(s[i], s[i + 1])

\* lines 151-153
WideInitialReference(deltas) ==
    LET positive_deltas == WidePositiveDeltas(deltas)
    IN  IF positive_deltas # <<>> THEN WideMedianTruncated(positive_deltas)
        ELSE WideOf(fallback_duration_ns)

\* line 157: max(int(reference * MAX_GAP_MULTIPLIER), reference).  The
\* reference becomes a double, the product of the two doubles is rounded
\* to a double, and int() of that whole number is exact.
WideMaxGapNs(reference) ==
    WideMax(float(WideTimes(float(reference), MAX_GAP_MULTIPLIER)),
            reference)

\* lines 159-168
WideAdjustedDelta(raw_delta, reference) ==
    IF ~WideIsPositive(raw_delta) THEN reference
    ELSE IF WideLess(WideMaxGapNs(reference), raw_delta)
    THEN WideMaxGapNs(reference)
    ELSE raw_delta

\* lines 156-173: the loop over raw_deltas, then the trailing duration
RECURSIVE WideLoop(_, _, _)
WideLoop(deltas, reference, durations) ==
    IF deltas = <<>> THEN Append(durations, reference)
    ELSE LET adjusted_delta == WideAdjustedDelta(Head(deltas), reference)
         IN  WideLoop(Tail(deltas), adjusted_delta,
                      Append(durations, adjusted_delta))

\* lines 141-174
build_vfr_durations_ns(ts) ==
    IF Len(ts) = 0 THEN <<>>
    ELSE IF Len(ts) = 1 THEN <<WideOf(fallback_duration_ns)>>
    ELSE LET deltas == WideRawDeltas(ts)
         IN  WideLoop(deltas, WideInitialReference(deltas), <<>>)

\* build_vfr_durations_ns before it is called on wide timestamps
WideIdle ==
    /\ wide_pc = "idle"
    /\ wide_ts = <<>>
    /\ wide_durations = <<>>

\* one call of build_vfr_durations_ns, from the call to the return
BuildVfrWide ==
    /\ wide_pc = "call"
    /\ wide_durations' = build_vfr_durations_ns(wide_ts)
    /\ wide_pc' = "ret"
    /\ UNCHANGED <<wide_ts, convertVars, planVars, topicVars>>

(***************************************************************************)
(* The messages of a log.  A message carries what the reader yields for    *)
(* it: the schema name (NoSchema when the reader yields schema None), the  *)
(* channel topic, message.log_time and the decoded ROS message: its        *)
(* header stamp and its image payload.                                     *)
(***************************************************************************)
ImageSchema == "sensor_msgs/msg/Image"
CompressedSchema == "sensor_msgs/msg/CompressedImage"
StringSchema == "std_msgs/msg/String"
NoSchema == "<None>"

\* line 26
IMAGE_SCHEMAS == {ImageSchema, CompressedSchema}

\* the topic argument of convert_to_mp4, and another topic of the log
Topic == "/camera/image"
OtherTopic == "/camera/depth"

\* an Optional[int]
None == [some |-> FALSE, val |-> 0]
Some(v) == [some |-> TRUE, val |-> v]

\* header.stamp: absent ("none"), sec and nanosec integers ("int"), or a
\* field that is missing or that int() rejects ("malformed")
NoStamp == [kind |-> "none", sec |-> 0, nanosec |-> 0]
Stamp(sec, nanosec) == [kind |-> "int", sec |-> sec, nanosec |-> nanosec]
BadStamp == [kind |-> "malformed", sec |-> 0, nanosec |-> 0]

\* the image payload: height, width, len(data) and the encoding label of a
\* sensor_msgs/msg/Image, the format label of a CompressedImage
Payload(height, width, nbytes, encoding) ==
    [height |-> height, width |-> width, nbytes |-> nbytes,
     encoding |-> encoding]

Rgb8Payload == Payload(1, 1, 3, "rgb8")
JpegPayload == Payload(1, 1, 3, "jpeg")

Msg(schema, topic, log_time, stamp, payload) ==
    [schema |-> schema, topic |-> topic, log_time |-> log_time,
     stamp |-> stamp, payload |-> payload]

\* lines 294-295, 334-335, 371-372 without the topic comparison
IsImageSchema(m) ==
    m.schema # NoSchema /\ m.schema \in IMAGE_SCHEMAS

\* lines 294-295, 334-335, 371-372: schema is not None and
\* schema.name in IMAGE_SCHEMAS and channel.topic == topic
Qualifies(m) ==
    m.schema # NoSchema /\ m.schema \in IMAGE_SCHEMAS /\ m.topic = Topic

\* lines 122-138
get_header_stamp_ns(m) ==
    IF m.stamp.kind = "none" THEN None
    ELSE IF m.stamp.kind = "malformed" THEN None
    ELSE Some(m.stamp.sec * NANOSECONDS_PER_SECOND + m.stamp.nanosec)

\* line 244 without .lower()
same_case(s) == s

\* str.lower() on the encoding labels of the model
lower(s) ==
    CASE s = "BGR8" -> "bgr8"
      [] s = "RGB8" -> "rgb8"
      [] OTHER -> s

\* lines 231-250: the decoded frame, or raised when _decode_frame raises
\* (ZeroDivisionError on height * width = 0, ValueError when the data
\* cannot be reshaped to (height, width, img_channel)).  swapped tells
\* whether the channel order was reversed; enc is used_encoding ("" for
\* None).
decode_frame(m) ==
    LET p == m.payload IN
    IF m.schema = CompressedSchema
    THEN [raised |-> FALSE, channels |-> 3, enc |-> p.encoding,
          swapped |-> FALSE]
    ELSE IF p.height * p.width = 0
    THEN [raised |-> TRUE, channels |-> 0, enc |-> "", swapped |-> FALSE]
    ELSE LET c == p.nbytes \div (p.height * p.width)
             encoding == lower(p.encoding)
         IN  IF p.height * p.width * c # p.nbytes
             THEN [raised |-> TRUE, channels |-> c, enc |-> "",
                   swapped |-> FALSE]
             ELSE [raised |-> FALSE, channels |-> c, enc |-> encoding,
                   swapped |-> (encoding = "bgr8" /\ c = 3)]

\* the frame handed to the encoder: the log position of its message and
\* the decode result
Frame(i, d) == [msg |-> i, channels |-> d.channels, swapped |-> d.swapped]

\* f"{frame_idx:06d}" as its decimal digits, padded with zeros to 6
RECURSIVE Digits(_)
Digits(n) == IF n < 10 THEN <<n>> ELSE Append(Digits(n \div 10), n % 10)

RECURSIVE ZeroPad(_, _)
ZeroPad(ds, width) == IF Len(ds) >= width THEN ds ELSE ZeroPad(<<0>> \o ds, width)

\* line 340: the file name frame_<idx:06d>.png inside temp_dir
FramePath(idx) == ZeroPad(Digits(idx), 6)

\* img.save(image_path): the file is created or overwritten
SaveFile(files, path, frame) ==
    {f \in files : f.path # path} \cup {[path |-> path, frame |-> frame]}

(***************************************************************************)
(* _check_memory_warning (lines 253-279).  env is what the host answers:   *)
(* peak is _get_peak_memory_mb() (None when resource is unavailable),      *)
(* avail is the available memory in MB (None when os.sysconf raises) and   *)
(* answer is the line typed at the prompt.                                 *)
(***************************************************************************)
MemEnvs ==
    [peak : {None, Some(1), Some(2)},
     avail : {None, Some(1), Some(2)},
     answer : {"y", "n"}]

\* the host is consulted only when line 255 lets the check through
QuietEnv == [peak |-> None, avail |-> None, answer |-> "n"]

MemEnvsAt(idx) ==
    IF idx % MEMORY_CHECK_INTERVAL = 0 THEN MemEnvs ELSE {QuietEnv}

\* line 264: avail_mb < current_memory_mb, both known
LowMemory(env) ==
    env.peak.some /\ env.avail.some /\ env.avail.val < env.peak.val

\* line 258: the calls of _get_peak_memory_mb so far, each with the frame
\* index it was made at and whether the host was short of memory then
MemChecked(checks, idx, env) ==
    IF idx % MEMORY_CHECK_INTERVAL # 0 THEN checks
    ELSE Append(checks, [idx |-> idx, low |-> LowMemory(env)])

\* lines 253-279 with the memory_warning_shown test of line 259 left out
check_memory_warning_reask(idx, cur, shown, env) ==
    IF idx % MEMORY_CHECK_INTERVAL # 0
    THEN [mem |-> cur, shown |-> shown, prompted |-> FALSE, exit |-> FALSE]
    ELSE IF env.peak.some /\ env.avail.some
            /\ env.avail.val < env.peak.val
    THEN [mem |-> env.peak, shown |-> TRUE, prompted |-> TRUE,
          exit |-> (env.answer # "y")]
    ELSE [mem |-> env.peak, shown |-> shown, prompted |-> FALSE,
          exit |-> FALSE]

\* lines 253-279 with the interval test of line 255 left out
check_memory_warning_every_frame(idx, cur, shown, env) ==
    IF env.peak.some /\ ~shown /\ env.avail.some
       /\ env.avail.val < env.peak.val
    THEN [mem |-> env.peak, shown |-> TRUE, prompted |-> TRUE,
          exit |-> (env.answer # "y")]
    ELSE [mem |-> env.peak, shown |-> shown, prompted |-> FALSE,
          exit |-> FALSE]

check_memory_warning(idx, cur, shown, env) ==
    IF idx % MEMORY_CHECK_INTERVAL # 0
    THEN [mem |-> cur, shown |-> shown, prompted |-> FALSE, exit |-> FALSE]
    ELSE IF env.peak.some /\ ~shown /\ env.avail.some
            /\ env.avail.val < env.peak.val
    THEN [mem |-> env.peak, shown |-> TRUE, prompted |-> TRUE,
          exit |-> (env.answer # "y")]
    ELSE [mem |-> env.peak, shown |-> shown, prompted |-> FALSE,
          exit |-> FALSE]

(***************************************************************************)
(* The timing gate's arithmetic (lines 308-313).                           *)
(***************************************************************************)
\* statistics.mean(diff) as the exact fraction sum / count over the
\* positive deltas only
MeanOfPositive(diff) ==
    [sum |-> SumSeq(SelectSeq(diff, IsPositive)),
     count |-> Len(SelectSeq(diff, IsPositive))]

\* line 309 with the mean taken over the magnitudes of the deltas
MeanOfMagnitudes(diff) ==
    [sum |-> SumSeq([i \in 1..Len(diff) |->
                        IF diff[i] < 0 THEN 0 - diff[i] ELSE diff[i]]),
     count |-> Len(diff)]

\* line 309: statistics.mean(diff_timestamp) as the exact fraction
\* sum / count (it is zero exactly when the sum is)
MeanInterval(diff) == [sum |-> SumSeq(diff), count |-> Len(diff)]

\* line 313: 1 / mean_interval * 10**9, kept as the fraction
\* 10^9 * num / den
FpsOf(mean_interval) == [num |-> mean_interval.count, den |-> mean_interval.sum]

NoFps == [num |-> 0, den |-> 0]

\* line 310 without the test
NeverDegenerate(mean_interval) == FALSE

\* line 310 with mean_interval <= 0
DegenerateWhenNotPositive(mean_interval) == mean_interval.sum <= 0

\* line 310: mean_interval == 0
IsDegenerate(mean_interval) == mean_interval.sum = 0

\* line 303 with an off-by-one bound
TooShortBelowOne(n) == n < 1

\* line 303: total_frames < 2
TooShort(n) == n < 2

(***************************************************************************)
(* convert_to_mp4 (lines 282-393), pass 1: scan timestamps.                *)
(***************************************************************************)
\* lines 283-288: the paths are sanitized (ValueError on a dangerous
\* character), the spinner is built and its thread started
Start ==
    /\ pc = "start"
    /\ \E path_ok \in BOOLEAN :
         IF path_ok
         THEN /\ timestamps' = <<>>
              /\ spinner_thread' = "alive"
              /\ pc' = "open1"
              /\ UNCHANGED <<outcome, exception>>
         ELSE /\ outcome' = "raised"
              /\ exception' = "path"
              /\ pc' = "end"
              /\ UNCHANGED <<timestamps, spinner_thread>>
    /\ UNCHANGED <<wideVars, topicVars, inputVars, readerVars, spinner_count, stop_event, spin_shown,
                   total_frames, video_fps, frameVars, memVars, vfrVars,
                   cfrVars, planVars,
                   outVars>>

\* lines 291-292: the input is opened for pass 1; when open() raises, the
\* finally clause stops the spinner (line 67 sets the stop event)
OpenScan ==
    /\ pc = "open1"
    /\ \E ok \in BOOLEAN :
         IF ok
         THEN /\ opens' = opens + 1
              /\ handle_open' = TRUE
              /\ pos' = 0
              /\ pc' = "scan"
              /\ UNCHANGED <<exception, stop_event>>
         ELSE /\ exception' = "open"
              /\ stop_event' = TRUE
              /\ pc' = "join"
              /\ UNCHANGED readerVars
    /\ UNCHANGED <<wideVars, topicVars, inputVars, outcome, spinner_count, spinner_thread,
                   spin_shown, scanVars, frameVars, memVars, vfrVars, cfrVars,
                   planVars,
                   outVars>>

\* line 297 with a count one ahead of the list
CountAhead(ts) == Len(ts) + 1

\* line 297: spinner.count = len(timestamps); the setter stores the value
\* under the lock (lines 50-53)
CountOf(ts) == Len(ts)

\* lines 293-297: one message of pass 1
ScanMessage ==
    /\ pc = "scan"
    /\ pos < Len(log)
    /\ LET m == log[pos + 1] IN
         IF Qualifies(m)
         THEN /\ timestamps' = Append(timestamps, m.log_time)
              /\ spinner_count' = CountOf(Append(timestamps, m.log_time))
         ELSE UNCHANGED <<timestamps, spinner_count>>
    /\ pos' = pos + 1
    /\ UNCHANGED <<wideVars, topicVars, inputVars, ctlVars, opens, handle_open, stop_event,
                   spinner_thread, spin_shown, total_frames, video_fps,
                   frameVars, memVars, vfrVars, cfrVars, planVars,
                   outVars>>

\* line 291 without the with block closing the file
left_open(handle) == handle

\* line 291: leaving the with block closes the file
closed_by_with(handle) == FALSE

\* the reader raises while pass 1 iterates (a corrupt record): the with
\* block closes the file and the finally clause stops the spinner
ScanRaise ==
    /\ pc = "scan"
    /\ exception' = "read"
    /\ handle_open' = closed_by_with(handle_open)
    /\ stop_event' = TRUE
    /\ pc' = "join"
    /\ UNCHANGED <<wideVars, topicVars, inputVars, outcome, pos, opens, spinner_count,
                   spinner_thread, spin_shown, scanVars, frameVars, memVars,
                   vfrVars, cfrVars, planVars,
                   outVars>>

\* lines 298-299 at the end of the log: the file is closed, spinner.stop()
\* sets the stop event (line 67)
ScanEnd ==
    /\ pc = "scan"
    /\ pos = Len(log)
    /\ handle_open' = closed_by_with(handle_open)
    /\ stop_event' = TRUE
    /\ pc' = "join"
    /\ UNCHANGED <<wideVars, topicVars, inputVars, outcome, exception, pos, opens, spinner_count,
                   spinner_thread, spin_shown, scanVars, frameVars, memVars,
                   vfrVars, cfrVars, planVars,
                   outVars>>

\* Spinner._spin, lines 56-60: one round of the spinner thread.  It ends
\* when the stop event is set (its locals end with it), else it prints the
\* count read under the lock
SpinTick ==
    /\ spinner_thread = "alive"
    /\ IF stop_event
       THEN /\ spinner_thread' = "dead"
            /\ spin_shown' = 0
       ELSE /\ spin_shown' = spinner_count
            /\ UNCHANGED spinner_thread
    /\ UNCHANGED <<wideVars, topicVars, inputVars, ctlVars, readerVars, spinner_count, stop_event,
                   scanVars, frameVars, memVars, vfrVars, cfrVars, planVars,
                   outVars>>

\* lines 68-69 without the join
JoinSkipped(thread) == TRUE

\* lines 68-69: if self._thread: self._thread.join() returns
Joined(thread) == thread = "none" \/ thread = "dead"

\* Spinner.stop, lines 68-70: join returns once the thread has ended; an
\* exception of pass 1 then leaves convert_to_mp4
JoinSpinner ==
    /\ pc = "join"
    /\ Joined(spinner_thread)
    /\ IF exception # "none"
       THEN /\ outcome' = "raised"
            /\ pc' = "end"
       ELSE /\ pc' = "gate"
            /\ UNCHANGED outcome
    /\ UNCHANGED <<wideVars, topicVars, inputVars, exception, readerVars, spinnerVars, scanVars,
                   frameVars, memVars, vfrVars, cfrVars, planVars,
                   outVars>>

(***************************************************************************)
(* The gate between the passes (lines 301-313).                            *)
(***************************************************************************)
TimingGate ==
    /\ pc = "gate"
    /\ total_frames' = Len(timestamps)
    /\ LET diff_timestamp == RawDeltas(timestamps)
           mean_interval == MeanInterval(diff_timestamp)
       IN  IF TooShort(Len(timestamps))
           THEN /\ outcome' = "exit_too_short"
                /\ pc' = "end"
                /\ UNCHANGED <<video_fps, exception>>
           ELSE IF timestamp_timing
           THEN /\ pc' = "phase2"
                /\ UNCHANGED <<video_fps, outcome, exception>>
           ELSE IF Len(diff_timestamp) = 0
           THEN \* statistics.mean([]) raises StatisticsError
                /\ outcome' = "raised"
                /\ exception' = "statistics"
                /\ pc' = "end"
                /\ UNCHANGED video_fps
           ELSE IF IsDegenerate(mean_interval)
           THEN /\ outcome' = "exit_degenerate"
                /\ pc' = "end"
                /\ UNCHANGED <<video_fps, exception>>
           ELSE IF mean_interval.sum = 0
           THEN \* 1 / mean_interval raises ZeroDivisionError
                /\ outcome' = "raised"
                /\ exception' = "zero_division"
                /\ pc' = "end"
                /\ UNCHANGED video_fps
           ELSE /\ video_fps' = FpsOf(mean_interval)
                /\ pc' = "phase2"
                /\ UNCHANGED <<outcome, exception>>
    /\ UNCHANGED <<wideVars, topicVars, inputVars, readerVars, spinnerVars, timestamps, frameVars,
                   memVars, vfrVars, cfrVars, planVars,
                   outVars>>

(***************************************************************************)
(* Pass 2, shared pieces.                                                  *)
(***************************************************************************)
\* lines 353 and 378 without the increment
SameFrameIdx(idx) == idx

\* lines 353 and 378: frame_idx += 1
NextFrameIdx(idx) == idx + 1

\* lines 337-338 and 374-375: used_encoding after a decoded frame
UsedEncoding(d, prev) == IF d.enc # "" THEN d.enc ELSE prev

\* lines 316-322: the locals of pass 2
Pass2Locals ==
    /\ used_encoding' = ""
    /\ img_channel' = 3
    /\ frame_idx' = 0
    /\ memory_warning_shown' = FALSE
    /\ current_memory_mb' = None
    /\ warned_missing_stamp' = FALSE

(***************************************************************************)
(* Pass 2, the VFR branch (lines 324-363).                                 *)
(***************************************************************************)
\* line 363 without the removal
rmtree_skipped(dir) == dir

\* line 363: shutil.rmtree(temp_dir, ignore_errors=True)
rmtree(dir) == "removed"

\* lines 345-347 without the warned_missing_stamp test
WarnsEveryTime(stamp, warned) == ~stamp.some

\* lines 345-347: the missing-stamp warning is printed
WarnsMissingStamp(stamp, warned) == ~stamp.some /\ ~warned

\* lines 316-328: the temporary directory is created
BeginVfr ==
    /\ pc = "phase2"
    /\ timestamp_timing
    /\ Pass2Locals
    /\ temp_dir' = "exists"
    /\ temp_files' = {}
    /\ image_paths' = <<>>
    /\ timestamps_ns' = <<>>
    /\ pc' = "vfr_open"
    /\ UNCHANGED <<wideVars, topicVars, inputVars, outcome, exception, readerVars, spinnerVars,
                   scanVars, decoded, stamp_warnings, prompts, mem_checks,
                   encode_calls,
                   manifest, ffmpeg_runs, ffmpeg_input, cfrVars, planVars,
                   outVars>>

\* lines 331-332: the input is opened for pass 2; when open() raises, the
\* finally clause (line 363) removes the temporary directory
OpenVfr ==
    /\ pc = "vfr_open"
    /\ \E ok \in BOOLEAN :
         IF ok
         THEN /\ opens' = opens + 1
              /\ handle_open' = TRUE
              /\ pos' = 0
              /\ pc' = "vfr_loop"
              /\ UNCHANGED <<outcome, exception, temp_dir, temp_files>>
         ELSE /\ outcome' = "raised"
              /\ exception' = "open"
              /\ temp_dir' = rmtree(temp_dir)
              /\ temp_files' = {}
              /\ pc' = "end"
              /\ UNCHANGED readerVars
    /\ UNCHANGED <<wideVars, topicVars, inputVars, spinnerVars, scanVars, frameVars, memVars,
                   image_paths, timestamps_ns, encode_calls, manifest,
                   ffmpeg_runs, ffmpeg_input, cfrVars, planVars,
                   outVars>>

\* lines 333-356: one message of pass 2.  io_ok tells whether img.save
\* succeeds, env what the memory check finds.  An exception or the
\* sys.exit(1) of the memory prompt leaves through the finally clause
\* (line 363), which removes the temporary directory.
VfrFrame ==
    /\ pc = "vfr_loop"
    /\ pos < Len(log)
    /\ LET m == log[pos + 1] IN
       IF ~Qualifies(m)
       THEN /\ pos' = pos + 1
            /\ UNCHANGED <<ctlVars, handle_open, frameVars, memVars, temp_dir,
                           temp_files, image_paths, timestamps_ns>>
       ELSE \E io_ok \in BOOLEAN, env \in MemEnvsAt(NextFrameIdx(frame_idx)) :
            LET d == decode_frame(m)
                image_path == FramePath(frame_idx)
                stamp == get_header_stamp_ns(m)
                timestamp_ns == IF stamp.some THEN stamp.val ELSE m.log_time
                idx == NextFrameIdx(frame_idx)
                chk == check_memory_warning(idx, current_memory_mb,
                                            memory_warning_shown, env)
                decoded_ok == ~d.raised
                saved == decoded_ok /\ io_ok
                goes_on == saved /\ ~chk.exit
            IN  /\ decoded' = decoded + 1
                /\ img_channel' = IF decoded_ok THEN d.channels ELSE img_channel
                /\ used_encoding' =
                       IF decoded_ok THEN UsedEncoding(d, used_encoding)
                       ELSE used_encoding
                /\ image_paths' =
                       IF saved THEN Append(image_paths, image_path)
                       ELSE image_paths
                /\ timestamps_ns' =
                       IF saved THEN Append(timestamps_ns, timestamp_ns)
                       ELSE timestamps_ns
                /\ warned_missing_stamp' =
                       IF saved /\ ~stamp.some THEN TRUE
                       ELSE warned_missing_stamp
                /\ stamp_warnings' =
                       IF saved /\ WarnsMissingStamp(stamp, warned_missing_stamp)
                       THEN stamp_warnings + 1 ELSE stamp_warnings
                /\ frame_idx' = IF saved THEN idx ELSE frame_idx
                /\ prompts' = IF saved /\ chk.prompted THEN prompts + 1
                              ELSE prompts
                /\ mem_checks' = IF saved THEN MemChecked(mem_checks, idx, env)
                                 ELSE mem_checks
                /\ current_memory_mb' =
                       IF goes_on THEN chk.mem ELSE current_memory_mb
                /\ memory_warning_shown' =
                       IF goes_on THEN chk.shown ELSE memory_warning_shown
                /\ temp_files' =
                       IF goes_on
                       THEN SaveFile(temp_files, image_path, Frame(pos + 1, d))
                       ELSE {}
                /\ temp_dir' = IF goes_on THEN temp_dir ELSE rmtree(temp_dir)
                /\ handle_open' = goes_on
                /\ pos' = IF goes_on THEN pos + 1 ELSE pos
                /\ pc' = IF goes_on THEN "vfr_loop" ELSE "end"
                /\ outcome' = IF goes_on THEN "running"
                              ELSE IF saved THEN "exit_aborted" ELSE "raised"
                /\ exception' = IF ~decoded_ok THEN "decode"
                                ELSE IF ~saved THEN "save" ELSE exception
    /\ UNCHANGED <<wideVars, topicVars, inputVars, opens, spinnerVars, scanVars, encode_calls,
                   manifest, ffmpeg_runs, ffmpeg_input, cfrVars, planVars,
                   outVars>>

\* the reader raises while pass 2 iterates (a record the decoder rejects)
VfrReadRaise ==
    /\ pc = "vfr_loop"
    /\ outcome' = "raised"
    /\ exception' = "read"
    /\ handle_open' = FALSE
    /\ temp_dir' = rmtree(temp_dir)
    /\ temp_files' = {}
    /\ pc' = "end"
    /\ UNCHANGED <<wideVars, topicVars, inputVars, pos, opens, spinnerVars, scanVars, frameVars,
                   memVars, image_paths, timestamps_ns, encode_calls, manifest,
                   ffmpeg_runs, ffmpeg_input, cfrVars, planVars,
                   outVars>>

\* lines 358-360: the log is exhausted, the file is closed and
\* build_vfr_durations_ns(timestamps_ns) is called
VfrEndLoop ==
    /\ pc = "vfr_loop"
    /\ pos = Len(log)
    /\ handle_open' = FALSE
    /\ vfr_ts' = timestamps_ns
    /\ vfr_pc' = "call"
    /\ pc' = "plan"
    /\ UNCHANGED <<wideVars, topicVars, inputVars, outcome, exception, pos, opens, spinnerVars,
                   scanVars, frameVars, memVars, vfrVars, cfrVars, raw_deltas,
                   reference_duration_ns, durations_ns,
                   outVars>>

\* lines 188-192: the lines of list.txt
ManifestLines(paths, durations) ==
    LET n == IF Len(paths) <= Len(durations) THEN Len(paths)
             ELSE Len(durations)
    IN  [j \in 1..(2 * n) |->
            IF j % 2 = 1
            THEN [kind |-> "file", path |-> paths[(j + 1) \div 2], ns |-> 0]
            ELSE [kind |-> "duration", path |-> <<>>,
                  ns |-> durations[j \div 2]]]

\* line 192 left out
NoLastFileLine(paths) == <<>>

\* line 192: the last file is repeated
LastFileLine(paths) ==
    <<[kind |-> "file", path |-> paths[Len(paths)], ns |-> 0]>>

\* line 208: what the ffmpeg subprocess leaves at output_file.  A run that
\* fails may have written part of the file before it failed.
FfmpegOutput(run, file) ==
    CASE run = "ok" -> "complete"
      [] run = "failed_midway" -> "partial"
      [] OTHER -> file

\* encode_vfr (lines 181-212) on its arguments; run is how subprocess.run
\* ends and file what is at output_file.  It yields the exception raised
\* ("none" when it returns), the lines written to list.txt, the calls of
\* subprocess.run, the lines list.txt held when ffmpeg was run and what is
\* at output_file afterwards.
encode_vfr(paths, durations, run, file) ==
    IF Len(paths) # Len(durations)
    THEN [exception |-> "mismatch", manifest |-> <<>>, runs |-> 0,
          input |-> <<>>, output |-> file]
    ELSE IF Len(paths) = 0
    THEN \* image_paths[-1] raises IndexError
         [exception |-> "index", manifest |-> <<>>, runs |-> 0,
          input |-> <<>>, output |-> file]
    ELSE LET lines == ManifestLines(paths, durations) \o LastFileLine(paths)
         IN  [exception |-> IF run = "ok" THEN "none"
                            ELSE IF run = "missing" THEN "ffmpeg_missing"
                            ELSE "ffmpeg_failed",
              manifest |-> lines, runs |-> 1, input |-> lines,
              output |-> FfmpegOutput(run, file)]

\* how subprocess.run (line 208) can end
FfmpegRuns == {"ok", "missing", "failed", "failed_midway"}

\* line 361 with encode_vfr (lines 181-212), the finally clause (line 363)
\* and the summary (lines 386-393).
EncodeVfr ==
    /\ pc = "plan"
    /\ vfr_pc = "ret"
    /\ encode_calls' = Append(encode_calls,
                              [paths |-> image_paths, durations |-> durations_ns])
    /\ \E run \in FfmpegRuns :
         LET r == encode_vfr(image_paths, durations_ns, run, output_file) IN
         /\ manifest' = r.manifest
         /\ ffmpeg_runs' = ffmpeg_runs + r.runs
         /\ ffmpeg_input' = r.input
         /\ output_file' = r.output
         /\ outcome' = IF r.exception = "none" THEN "done" ELSE "raised"
         /\ exception' = IF r.exception = "none" THEN exception
                         ELSE r.exception
    /\ temp_dir' = rmtree(temp_dir)
    /\ temp_files' = {}
    /\ pc' = "end"
    /\ UNCHANGED <<wideVars, topicVars, inputVars, readerVars, spinnerVars, scanVars, frameVars,
                   memVars, image_paths, timestamps_ns, cfrVars, planVars>>

\* a direct call of encode_vfr(output_file, image_paths, durations_ns)
EncodeVfrCall ==
    /\ pc = "encode"
    /\ encode_calls' = Append(encode_calls,
                              [paths |-> image_paths, durations |-> durations_ns])
    /\ \E run \in FfmpegRuns :
         LET r == encode_vfr(image_paths, durations_ns, run, output_file) IN
         /\ manifest' = r.manifest
         /\ ffmpeg_runs' = ffmpeg_runs + r.runs
         /\ ffmpeg_input' = r.input
         /\ output_file' = r.output
         /\ outcome' = IF r.exception = "none" THEN "done" ELSE "raised"
         /\ exception' = r.exception
    /\ pc' = "end"
    /\ UNCHANGED <<wideVars, topicVars, inputVars, readerVars, spinnerVars, scanVars, frameVars,
                   memVars, temp_dir, temp_files, image_paths, timestamps_ns,
                   cfrVars, planVars>>

(***************************************************************************)
(* Pass 2, the CFR branch (lines 364-384).                                 *)
(***************************************************************************)
\* line 383 after the last frame: closing the writer completes the file
\* its frames were written to; it does not create one
WriterClosed(file) == IF file = "partial" THEN "complete" ELSE file

\* line 383 without the close
close_skipped(writer) == writer

\* line 383: video_writer.close()
close(writer) == "closed"

\* lines 316-322 and 366: the streaming writer is opened with video_fps
BeginCfr ==
    /\ pc = "phase2"
    /\ ~timestamp_timing
    /\ Pass2Locals
    /\ video_writer' = "open"
    /\ writer_fps' = video_fps
    /\ pc' = "cfr_open"
    /\ UNCHANGED <<wideVars, topicVars, inputVars, outcome, exception, readerVars, spinnerVars,
                   scanVars, decoded, stamp_warnings, prompts, mem_checks,
                   vfrVars,
                   appended, closes, planVars,
                   outVars>>

\* lines 368-369: the input is opened for pass 2; when open() raises, the
\* finally clause (line 383) closes the writer
OpenCfr ==
    /\ pc = "cfr_open"
    /\ \E ok \in BOOLEAN :
         IF ok
         THEN /\ opens' = opens + 1
              /\ handle_open' = TRUE
              /\ pos' = 0
              /\ pc' = "cfr_loop"
              /\ UNCHANGED <<outcome, exception, video_writer, closes>>
         ELSE /\ outcome' = "raised"
              /\ exception' = "open"
              /\ video_writer' = close(video_writer)
              /\ closes' = closes + 1
              /\ pc' = "end"
              /\ UNCHANGED readerVars
    /\ UNCHANGED <<wideVars, topicVars, inputVars, spinnerVars, scanVars, frameVars, memVars,
                   vfrVars, writer_fps, appended, planVars,
                   outVars>>

\* lines 370-381: one message of pass 2.  io_ok tells whether append_data
\* succeeds.  An exception or the sys.exit(1) of the memory prompt leaves
\* through the finally clause (line 383), which closes the writer.
CfrFrame ==
    /\ pc = "cfr_loop"
    /\ pos < Len(log)
    /\ LET m == log[pos + 1] IN
       IF ~Qualifies(m)
       THEN /\ pos' = pos + 1
            /\ UNCHANGED <<ctlVars, handle_open, frameVars, memVars,
                           video_writer, appended, closes, outVars>>
       ELSE \E io_ok \in BOOLEAN, env \in MemEnvsAt(NextFrameIdx(frame_idx)) :
            LET d == decode_frame(m)
                idx == NextFrameIdx(frame_idx)
                chk == check_memory_warning(idx, current_memory_mb,
                                            memory_warning_shown, env)
                decoded_ok == ~d.raised
                written == decoded_ok /\ io_ok
                goes_on == written /\ ~chk.exit
            IN  /\ decoded' = decoded + 1
                /\ img_channel' = IF decoded_ok THEN d.channels ELSE img_channel
                /\ used_encoding' =
                       IF decoded_ok THEN UsedEncoding(d, used_encoding)
                       ELSE used_encoding
                /\ appended' =
                       IF written THEN Append(appended, Frame(pos + 1, d))
                       ELSE appended
                /\ frame_idx' = IF written THEN idx ELSE frame_idx
                /\ prompts' = IF written /\ chk.prompted THEN prompts + 1
                              ELSE prompts
                /\ mem_checks' = IF written THEN MemChecked(mem_checks, idx, env)
                                 ELSE mem_checks
                /\ output_file' = IF written THEN "partial" ELSE output_file
                /\ current_memory_mb' =
                       IF goes_on THEN chk.mem ELSE current_memory_mb
                /\ memory_warning_shown' =
                       IF goes_on THEN chk.shown ELSE memory_warning_shown
                /\ video_writer' = IF goes_on THEN video_writer
                                   ELSE close(video_writer)
                /\ closes' = IF goes_on THEN closes ELSE closes + 1
                /\ handle_open' = goes_on
                /\ pos' = IF goes_on THEN pos + 1 ELSE pos
                /\ pc' = IF goes_on THEN "cfr_loop" ELSE "end"
                /\ outcome' = IF goes_on THEN "running"
                              ELSE IF written THEN "exit_aborted" ELSE "raised"
                /\ exception' = IF ~decoded_ok THEN "decode"
                                ELSE IF ~written THEN "append" ELSE exception
                /\ UNCHANGED <<warned_missing_stamp, stamp_warnings>>
    /\ UNCHANGED <<wideVars, topicVars, inputVars, opens, spinnerVars, scanVars, vfrVars,
                   writer_fps, planVars>>

\* the reader raises while pass 2 iterates (a record the decoder rejects)
CfrReadRaise ==
    /\ pc = "cfr_loop"
    /\ outcome' = "raised"
    /\ exception' = "read"
    /\ handle_open' = FALSE
    /\ video_writer' = close(video_writer)
    /\ closes' = closes + 1
    /\ pc' = "end"
    /\ UNCHANGED <<wideVars, topicVars, inputVars, pos, opens, spinnerVars, scanVars, frameVars,
                   memVars, vfrVars, writer_fps, appended, planVars,
                   outVars>>

\* lines 382-393: the log is exhausted, the file and the writer are closed
\* and the summary is printed
CfrEnd ==
    /\ pc = "cfr_loop"
    /\ pos = Len(log)
    /\ handle_open' = FALSE
    /\ video_writer' = close(video_writer)
    /\ closes' = closes + 1
    /\ output_file' = WriterClosed(output_file)
    /\ outcome' = "done"
    /\ pc' = "end"
    /\ UNCHANGED <<wideVars, topicVars, inputVars, exception, pos, opens, spinnerVars, scanVars,
                   frameVars, memVars, vfrVars, writer_fps, appended, planVars>>

(***************************************************************************)
(* get_image_topic_list (lines 99-111).  The summary of a log holds its    *)
(* schemas, keyed by id, and its channels; a channel names its schema by   *)
(* id (an id the schemas do not hold makes schemas.get return None) and    *)
(* carries messages of the log, possibly none.                             *)
(***************************************************************************)
SeqsUpTo(S, n) == UNION {[1..k -> S] : k \in 0..n}

\* summary.schemas of the logs of the model: ids 1 to 3
SchemaIds == 0..3

\* line 108: schemas.get(channel.schema_id), with its name
SchemaName(id) ==
    CASE id = 1 -> ImageSchema
      [] id = 2 -> CompressedSchema
      [] id = 3 -> StringSchema
      [] OTHER -> NoSchema

\* a topic that carries no images but is named like one that does
InfoTopic == "/camera/info"

Channel(schema_id, topic, messages) ==
    [schema_id |-> schema_id, topic |-> topic, messages |-> messages]

\* reader.get_summary() is None
NoSummary == [present |-> FALSE, channels |-> <<>>]

Summary(channels) == [present |-> TRUE, channels |-> channels]

\* line 109: schema is not None and schema.name in IMAGE_SCHEMAS
IsImageChannel(channel) ==
    LET name == SchemaName(channel.schema_id)
    IN  name # NoSchema /\ name \in IMAGE_SCHEMAS

Range(s) == {s[i] : i \in 1..Len(s)}

\* line 111 without set()
list_as_appended(l) == {l}

\* line 111: list(set(topic_list)), in each order a set can be listed
list_of_set(l) ==
    LET S == Range(l)
    IN  {r \in [1..Cardinality(S) -> S] : Range(r) = S}

\* lines 100-106: the file is opened (open() may raise) and the summary
\* read; without a summary the empty list is returned
TopicListOpen ==
    /\ topic_pc = "call"
    /\ \E ok \in BOOLEAN :
         IF ~ok
         THEN /\ topic_pc' = "raised"
              /\ UNCHANGED <<topic_list, channel_pos, topic_result>>
         ELSE IF ~summary.present
         THEN /\ topic_list' = <<>>
              /\ topic_result' = <<>>
              /\ topic_pc' = "ret"
              /\ UNCHANGED channel_pos
         ELSE /\ topic_list' = <<>>
              /\ channel_pos' = 0
              /\ topic_pc' = "loop"
              /\ UNCHANGED topic_result
    /\ UNCHANGED <<summary, convertVars, planVars, wideVars>>

\* lines 107-110: one channel of the summary
TopicListChannel ==
    /\ topic_pc = "loop"
    /\ channel_pos < Len(summary.channels)
    /\ LET channel == summary.channels[channel_pos + 1] IN
         topic_list' = IF IsImageChannel(channel)
                       THEN Append(topic_list, channel.topic)
                       ELSE topic_list
    /\ channel_pos' = channel_pos + 1
    /\ UNCHANGED <<summary, topic_pc, topic_result, convertVars, planVars, wideVars>>

\* line 111: the topics are returned, each once
TopicListReturn ==
    /\ topic_pc = "loop"
    /\ channel_pos = Len(summary.channels)
    /\ topic_result' \in list_of_set(topic_list)
    /\ topic_pc' = "ret"
    /\ UNCHANGED <<summary, channel_pos, topic_list, convertVars, planVars, wideVars>>

\* get_image_topic_list before it is called
TopicIdle ==
    /\ summary = NoSummary
    /\ topic_pc = "idle"
    /\ channel_pos = 0
    /\ topic_list = <<>>
    /\ topic_result = <<>>

(***************************************************************************)
(* The logs convert_to_mp4 is run on.                                      *)
(***************************************************************************)

\* schema and topic of a message, qualifying or not
MsgKinds ==
    { <<ImageSchema, Topic>>, <<CompressedSchema, Topic>>,
      <<StringSchema, Topic>>, <<ImageSchema, OtherTopic>>,
      <<NoSchema, Topic>> }

DefaultPayload(schema) ==
    IF schema = CompressedSchema THEN JpegPayload ELSE Rgb8Payload

\* logs of every mix of qualifying and other messages, log times increasing
FilterLogs ==
    { [i \in 1..Len(ks) |->
          Msg(ks[i][1], ks[i][2], i, NoStamp, DefaultPayload(ks[i][1]))]
      : ks \in SeqsUpTo(MsgKinds, MaxMsgs) }

\* logs of qualifying frames with every order of log times, equal and
\* decreasing ones included
TimeLogs ==
    { [i \in 1..Len(ts) |-> Msg(ImageSchema, Topic, ts[i], NoStamp, Rgb8Payload)]
      : ts \in SeqsUpTo(0..MaxTime, MaxMsgs) }

\* logs of qualifying frames whose header stamps are present, absent or
\* malformed
StampChoices == {NoStamp, BadStamp} \cup {Stamp(0, n) : n \in 0..MaxTime}

StampLogs ==
    { [i \in 1..Len(ss) |-> Msg(ImageSchema, Topic, i, ss[i], Rgb8Payload)]
      : ss \in SeqsUpTo(StampChoices, MaxMsgs) }

\* logs of qualifying frames stamped within one second after the epoch
SecondLogs ==
    { [i \in 1..Len(ns) |->
          Msg(ImageSchema, Topic, i, Stamp(1, ns[i]), Rgb8Payload)]
      : ns \in SeqsUpTo(0..MaxTime, MaxMsgs) }

\* logs of two qualifying frames with every pair of payloads
PayloadChoices ==
    { <<ImageSchema, Payload(1, 1, 3, "rgb8")>>,
      <<ImageSchema, Payload(1, 1, 3, "bgr8")>>,
      <<ImageSchema, Payload(1, 1, 3, "BGR8")>>,
      <<ImageSchema, Payload(1, 1, 1, "mono8")>>,
      <<ImageSchema, Payload(1, 1, 4, "bgr8")>>,
      <<ImageSchema, Payload(0, 1, 0, "rgb8")>>,
      <<ImageSchema, Payload(1, 0, 0, "bgr8")>>,
      <<ImageSchema, Payload(1, 2, 3, "rgb8")>>,
      <<CompressedSchema, Payload(1, 1, 3, "jpeg")>>,
      <<CompressedSchema, Payload(1, 1, 3, "bgr8")>> }

PayloadLogs ==
    { [i \in 1..2 |-> Msg(ps[i][1], Topic, i, NoStamp, ps[i][2])]
      : ps \in [1..2 -> PayloadChoices] }

\* logs long enough for two memory checks: one of sound frames, one whose
\* frame after the first check has zero height, and one of sound frames
\* that all carry the same log time
LongLogs ==
    { [i \in 1..(2 * MEMORY_CHECK_INTERVAL) |->
          Msg(ImageSchema, Topic, i * kind.step, NoStamp,
              IF i = kind.bad THEN Payload(0, 1, 0, "rgb8") ELSE Rgb8Payload)]
      : kind \in { [bad |-> 0, step |-> 1],
                    [bad |-> MEMORY_CHECK_INTERVAL + 1, step |-> 1],
                    [bad |-> 0, step |-> 0] } }

Logs == FilterLogs \cup TimeLogs \cup StampLogs \cup SecondLogs
        \cup PayloadLogs

\* build_vfr_durations_ns before it is called
PlanIdle ==
    /\ vfr_pc = "idle"
    /\ vfr_ts = <<>>
    /\ raw_deltas = <<>>
    /\ reference_duration_ns = 0
    /\ durations_ns = <<>>

\* the state of convert_to_mp4 when it is called; paths is image_paths
ConvertStartWith(start_pc, paths) ==
    /\ pc = start_pc
    /\ outcome = "running"
    /\ exception = "none"
    /\ pos = 0
    /\ opens = 0
    /\ handle_open = FALSE
    /\ spinner_count = 0
    /\ stop_event = FALSE
    /\ spinner_thread = "none"
    /\ spin_shown = 0
    /\ timestamps = <<>>
    /\ total_frames = 0
    /\ video_fps = NoFps
    /\ frame_idx = 0
    /\ decoded = 0
    /\ used_encoding = ""
    /\ img_channel = 3
    /\ warned_missing_stamp = FALSE
    /\ stamp_warnings = 0
    /\ current_memory_mb = None
    /\ memory_warning_shown = FALSE
    /\ prompts = 0
    /\ temp_dir = "none"
    /\ temp_files = {}
    /\ image_paths = paths
    /\ timestamps_ns = <<>>
    /\ encode_calls = <<>>
    /\ manifest = <<>>
    /\ ffmpeg_runs = 0
    /\ ffmpeg_input = <<>>
    /\ video_writer = "none"
    /\ writer_fps = NoFps
    /\ appended = <<>>
    /\ closes = 0
    /\ mem_checks = <<>>
    /\ output_file = "absent"

ConvertStart(start_pc) == ConvertStartWith(start_pc, <<>>)

Init ==
    /\ log \in Logs
    /\ timestamp_timing \in BOOLEAN
    /\ ConvertStart("start")
    /\ PlanIdle
    /\ TopicIdle
    /\ WideIdle

Next ==
    \/ Start \/ OpenScan \/ ScanMessage \/ ScanRaise \/ ScanEnd
    \/ SpinTick \/ JoinSpinner \/ TimingGate
    \/ BeginVfr \/ OpenVfr \/ VfrFrame \/ VfrReadRaise \/ VfrEndLoop
    \/ BuildVfrEnter \/ BuildVfrStep \/ BuildVfrReturn \/ EncodeVfr
    \/ BeginCfr \/ OpenCfr \/ CfrFrame \/ CfrReadRaise \/ CfrEnd

Spec == Init /\ [][Next]_vars

\* the same call with the spinner thread scheduled: a thread that can take
\* a round of Spinner._spin eventually takes it
SpecLive == Spec /\ WF_vars(SpinTick)

\* the same call over a log long enough for the memory checks to run
InitLong ==
    /\ log \in LongLogs
    /\ timestamp_timing \in BOOLEAN
    /\ ConvertStart("start")
    /\ PlanIdle
    /\ TopicIdle
    /\ WideIdle

SpecLong == InitLong /\ [][Next]_vars

\* the steps of the thread that runs convert_to_mp4
MainThread ==
    \/ Start \/ OpenScan \/ ScanMessage \/ ScanRaise \/ ScanEnd
    \/ JoinSpinner \/ TimingGate
    \/ BeginVfr \/ OpenVfr \/ VfrFrame \/ VfrReadRaise \/ VfrEndLoop
    \/ BuildVfrEnter \/ BuildVfrStep \/ BuildVfrReturn \/ EncodeVfr
    \/ BeginCfr \/ OpenCfr \/ CfrFrame \/ CfrReadRaise \/ CfrEnd

\* a log of sound frames just long enough for one memory check
CheckLog ==
    [i \in 1..MEMORY_CHECK_INTERVAL |->
        Msg(ImageSchema, Topic, i, NoStamp, Rgb8Payload)]

\* SpecTerm: the call over that log or a short one, with both threads
\* scheduled: the main thread keeps running (the reader, the user at the
\* prompt and ffmpeg all answer) and so does the spinner thread
InitTerm ==
    /\ log \in TimeLogs \cup {CheckLog}
    /\ timestamp_timing \in BOOLEAN
    /\ ConvertStart("start")
    /\ PlanIdle
    /\ TopicIdle
    /\ WideIdle

SpecTerm ==
    InitTerm /\ [][Next]_vars /\ WF_vars(MainThread) /\ WF_vars(SpinTick)

(***************************************************************************)
(* SpecPlan: a direct call of build_vfr_durations_ns.                      *)
(***************************************************************************)
PlanTimes == (0..MaxSmallTs) \cup {BigTs + i : i \in 0..MaxSmallTs}

\* the argument lists of tests/test_cli.py lines 243-255
PlanTestVectors ==
    { <<0, 100, 100, 5000>>, <<12345>>, <<0, 1000000, 1000100, 1000200>> }

InitPlan ==
    /\ log = <<>>
    /\ timestamp_timing = TRUE
    /\ ConvertStart("idle")
    /\ vfr_pc = "call"
    /\ vfr_ts \in SeqsUpTo(PlanTimes, MaxPlanLen) \cup PlanTestVectors
    /\ raw_deltas = <<>>
    /\ reference_duration_ns = 0
    /\ durations_ns = <<>>
    /\ TopicIdle
    /\ WideIdle

NextPlan == BuildVfrEnter \/ BuildVfrStep \/ BuildVfrReturn

SpecPlan == InitPlan /\ [][NextPlan]_vars

(***************************************************************************)
(* SpecWide: a direct call of build_vfr_durations_ns on wide timestamps.   *)
(***************************************************************************)
\* 2^51 + 3 ns, about 26 days: ten times it is not a double
WideGap == Wide(2^24, 3)

\* 2^53 + 1 ns: the least whole number that is not a double
WideOdd == Wide(2^26, 1)

\* the steps between consecutive timestamps
WideSteps ==
    { WideOf(0 - 1), WideOf(0), WideOf(1), WideOf(BigTs + 1),
      WideGap, WideAdd(WideGap, WideOf(1)),
      WideAdd(WideTimes(WideGap, MAX_GAP_MULTIPLIER), WideOf(2)),
      WideAdd(WideTimes(WideGap, MAX_GAP_MULTIPLIER), WideOf(3)),
      WideOdd, WideAdd(WideOdd, WideOf(1)) }

\* the timestamps starting at 0 whose consecutive differences are steps
RECURSIVE WideFrom(_, _)
WideFrom(start, steps) ==
    IF steps = <<>> THEN <<start>>
    ELSE <<start>> \o WideFrom(WideAdd(start, Head(steps)), Tail(steps))

\* the argument lists of tests/test_cli.py lines 243-255
WideTestVectors ==
    {[i \in 1..Len(v) |-> WideOf(v[i])] : v \in PlanTestVectors}

WideTimestamps ==
    {<<>>} \cup WideTestVectors
           \cup {WideFrom(WideOf(0), steps) :
                    steps \in SeqsUpTo(WideSteps, MaxWideLen - 1)}

InitWide ==
    /\ log = <<>>
    /\ timestamp_timing = TRUE
    /\ ConvertStart("idle")
    /\ PlanIdle
    /\ TopicIdle
    /\ wide_pc = "call"
    /\ wide_ts \in WideTimestamps
    /\ wide_durations = <<>>

NextWide == BuildVfrWide

SpecWide == InitWide /\ [][NextWide]_vars

(***************************************************************************)
(* SpecEncode: a direct call of encode_vfr.                                *)
(***************************************************************************)
\* the arguments of tests/test_cli.py lines 285-286
EncodeTestPaths == <<FramePath(0), FramePath(1)>>
EncodeTestDurations == <<100000000, 100000000>>

EncodePaths == SeqsUpTo({FramePath(0), FramePath(1)}, MaxEncodeLen)

EncodeDurations ==
    SeqsUpTo({1, fallback_duration_ns}, MaxEncodeLen) \cup {EncodeTestDurations}

InitEncode ==
    /\ log = <<>>
    /\ timestamp_timing = TRUE
    /\ \E paths \in EncodePaths \cup {EncodeTestPaths} :
         ConvertStartWith("encode", paths)
    /\ vfr_pc = "idle"
    /\ vfr_ts = <<>>
    /\ raw_deltas = <<>>
    /\ reference_duration_ns = 0
    /\ durations_ns \in EncodeDurations
    /\ TopicIdle
    /\ WideIdle

NextEncode == EncodeVfrCall

SpecEncode == InitEncode /\ [][NextEncode]_vars

(***************************************************************************)
(* SpecTopics: a direct call of get_image_topic_list.                      *)
(***************************************************************************)
\* the channels of a summary: every schema id, two topics, with and
\* without messages
Channels ==
    {Channel(id, t, n) : id \in SchemaIds, t \in {Topic, InfoTopic},
                         n \in 0..1}

Summaries ==
    {NoSummary} \cup {Summary(cs) : cs \in SeqsUpTo(Channels, MaxChannels)}

\* SpecTopics: one call of get_image_topic_list
InitTopics ==
    /\ log = <<>>
    /\ timestamp_timing = FALSE
    /\ ConvertStart("idle")
    /\ PlanIdle
    /\ WideIdle
    /\ summary \in Summaries
    /\ topic_pc = "call"
    /\ channel_pos = 0
    /\ topic_list = <<>>
    /\ topic_result = <<>>

NextTopics == TopicListOpen \/ TopicListChannel \/ TopicListReturn

SpecTopics == InitTopics /\ [][NextTopics]_vars

(***************************************************************************)
(* Properties of build_vfr_durations_ns, checked under SpecPlan.  What a   *)
(* property expects is stated from the timestamp list vfr_ts alone.        *)
(***************************************************************************)
ExpectedDelta(i) == vfr_ts[i + 1] - vfr_ts[i]

PositiveAt == {i \in 1..(Len(vfr_ts) - 1) : ExpectedDelta(i) > 0}

\* the k-th smallest of the positive deltas, by counting
KthPositive(k) ==
    CHOOSE x \in {ExpectedDelta(i) : i \in PositiveAt} :
        /\ Cardinality({i \in PositiveAt : ExpectedDelta(i) < x}) < k
        /\ k <= Cardinality({i \in PositiveAt : ExpectedDelta(i) <= x})

\* the median of the positive deltas truncated to an integer, or the
\* fallback of 33,333,333 ns when there is none
ExpectedReference ==
    LET n == Cardinality(PositiveAt) IN
    IF n = 0 THEN 33333333
    ELSE IF n % 2 = 1 THEN KthPositive((n + 1) \div 2)
    ELSE (KthPositive(n \div 2) + KthPositive(n \div 2 + 1)) \div 2

ExpectedClamp(d, r) ==
    LET max_gap == IF 10 * r >= r THEN 10 * r ELSE r IN
    IF d <= 0 THEN r ELSE IF d > max_gap THEN max_gap ELSE d

\* C1: the list build_vfr_durations_ns returns holds one duration per
\* frame (as many as timestamps, for every length from 0 on); while the
\* loop runs it holds at most one per delta.
C1_OneDurationPerFrame ==
    /\ vfr_pc = "ret" => Len(durations_ns) = Len(vfr_ts)
    /\ vfr_pc = "loop" => Len(durations_ns) <= Len(vfr_ts) - 1

C1_Witness ==
    /\ vfr_pc = "ret"
    /\ Len(vfr_ts) = 3
    /\ Len(durations_ns) = 3

\* C2: every duration is strictly positive and the running reference is
\* positive at every iteration, whatever the deltas are.
C2_PositiveDurations ==
    /\ \A i \in 1..Len(durations_ns) : durations_ns[i] > 0
    /\ vfr_pc = "loop" => reference_duration_ns > 0

C2_Witness ==
    /\ vfr_pc = "ret"
    /\ Len(vfr_ts) = 3
    /\ vfr_ts[2] < vfr_ts[1]
    /\ vfr_ts[3] = vfr_ts[2]
    /\ Len(durations_ns) = 3

\* C6 on the timestamps of SpecPlan, where the product of line 157 is
\* exact: for two or more timestamps, each emitted duration is the raw delta
\* clamped against the running reference (the reference itself for a
\* delta <= 0, max(10 r, r) for a delta above it, the delta otherwise),
\* the reference is the duration emitted last, and the trailing duration
\* repeats the final reference; [0,100,100,5000] gives [100,100,1000,1000].
C6_AdaptiveClamping ==
    (vfr_pc \in {"loop", "ret"} /\ Len(vfr_ts) >= 2) =>
        LET n == Len(vfr_ts)
            k == IF Len(durations_ns) < n THEN Len(durations_ns) ELSE n - 1
        IN  /\ \A i \in 1..k :
                 durations_ns[i] =
                     ExpectedClamp(ExpectedDelta(i),
                                   IF i = 1 THEN ExpectedReference
                                   ELSE durations_ns[i - 1])
            /\ (vfr_pc = "loop" /\ k >= 1) =>
                   reference_duration_ns = durations_ns[k]
            /\ vfr_pc = "ret" =>
                   /\ Len(durations_ns) = n
                   /\ durations_ns[n] = durations_ns[n - 1]
            /\ (vfr_pc = "ret" /\ vfr_ts = <<0, 100, 100, 5000>>) =>
                   durations_ns = <<100, 100, 1000, 1000>>

C6_Witness ==
    /\ vfr_pc = "ret"
    /\ vfr_ts = <<0, 100, 100, 5000>>
    /\ durations_ns = <<100, 100, 1000, 1000>>

\* C7 on the timestamps of SpecPlan, where the median of line 152 is
\* exact: the reference the loop starts with is the truncated median of the
\* positive deltas (the fallback when none is positive), so the first
\* duration is clamped against the typical gap;
\* [0, 1000000, 1000100, 1000200] gives [1000, 100, 100, 100].
C7_MedianReference ==
    /\ (vfr_pc = "loop" /\ durations_ns = <<>>) =>
           reference_duration_ns = ExpectedReference
    /\ (vfr_pc = "ret" /\ Len(vfr_ts) >= 2) =>
           durations_ns[1] = ExpectedClamp(ExpectedDelta(1), ExpectedReference)
    /\ (vfr_pc = "ret" /\ vfr_ts = <<0, 1000000, 1000100, 1000200>>) =>
           durations_ns = <<1000, 100, 100, 100>>

C7_Witness ==
    /\ vfr_pc = "ret"
    /\ vfr_ts = <<0, 1000000, 1000100, 1000200>>
    /\ durations_ns[1] = 1000

\* C8: a single timestamp, whatever its value, gives exactly one duration
\* of 33,333,333 ns.
C8_SingleFrameFallback ==
    (vfr_pc = "ret" /\ Len(vfr_ts) = 1) => durations_ns = <<33333333>>

C8_Witness ==
    /\ vfr_pc = "ret"
    /\ vfr_ts = <<12345>>
    /\ durations_ns = <<33333333>>

(***************************************************************************)
(* Properties of convert_to_mp4, checked under Spec.  What a property      *)
(* expects is stated from the input log alone.                             *)
(***************************************************************************)
\* message i of the log has an image schema and the requested topic
ClaimQualifies(i) ==
    /\ log[i].schema \in {"sensor_msgs/msg/Image",
                          "sensor_msgs/msg/CompressedImage"}
    /\ log[i].topic = "/camera/image"

ClaimCount == Cardinality({i \in 1..Len(log) : ClaimQualifies(i)})

\* the log positions of the qualifying messages, in log order
ClaimQual ==
    [k \in 1..ClaimCount |->
        CHOOSE i \in 1..Len(log) :
            /\ ClaimQualifies(i)
            /\ Cardinality({j \in 1..i : ClaimQualifies(j)}) = k]

\* the log times of the qualifying messages, in log order
ClaimTimes == [k \in 1..Len(ClaimQual) |-> log[ClaimQual[k]].log_time]

RECURSIVE ClaimDeltaSumFrom(_, _)
ClaimDeltaSumFrom(ts, k) ==
    IF k >= Len(ts) THEN 0
    ELSE (ts[k + 1] - ts[k]) + ClaimDeltaSumFrom(ts, k + 1)

\* the sum of all raw consecutive deltas, negative ones included
ClaimDeltaSum == ClaimDeltaSumFrom(ClaimTimes, 1)

ClaimHasPositiveDelta ==
    \E k \in 1..(Len(ClaimTimes) - 1) : ClaimTimes[k + 1] > ClaimTimes[k]

ClaimHasNegativeDelta ==
    \E k \in 1..(Len(ClaimTimes) - 1) : ClaimTimes[k + 1] < ClaimTimes[k]

\* two or more qualifying frames that all carry the same timestamp
ClaimIdentical ==
    /\ ClaimCount >= 2
    /\ \A i, j \in 1..Len(log) :
           (ClaimQualifies(i) /\ ClaimQualifies(j)) =>
               /\ log[i].log_time = log[j].log_time
               /\ log[i].stamp = log[j].stamp

\* the failures of the host during pass 1: a rejected path, an input that
\* cannot be opened or read
Pass1Failures == {"path", "open", "read"}

\* the timing gate was passed or has ended the call
AfterGate ==
    \/ pc \in {"phase2", "cfr_open", "cfr_loop", "vfr_open", "vfr_loop", "plan"}
    \/ pc = "end" /\ ~(opens <= 1 /\ exception \in Pass1Failures
                       /\ total_frames = 0 /\ temp_dir = "none"
                       /\ video_writer = "none")

\* video_fps = 10^9 / mean(all raw deltas) = 10^9 * (N - 1) / sum
ClaimFpsIsMeanRate(fps) ==
    /\ fps.den # 0
    /\ fps.num * ClaimDeltaSum = (ClaimCount - 1) * fps.den

\* C3 as stated: in CFR mode every sequence of two or more timestamps with
\* at least one positive delta passes the gate with the rate
\* 10^9 / mean(all raw deltas) and opens the encoder with it.
C3_AsStated ==
    (~timestamp_timing /\ ClaimCount >= 2 /\ ClaimHasPositiveDelta
     /\ AfterGate) =>
        /\ outcome # "exit_degenerate"
        /\ ClaimFpsIsMeanRate(video_fps)

\* C3, amended: in CFR mode every sequence of two or more timestamps with
\* at least one positive delta whose deltas do not sum to zero passes the
\* gate with the rate 10^9 / mean(all raw deltas, negative ones included)
\* and the encoder is opened with that rate; all-identical timestamps end
\* the call with the degenerate-timing exit and no encoder.
C3_CfrFrameRate ==
    (~timestamp_timing /\ ClaimCount >= 2 /\ AfterGate) =>
        /\ (ClaimHasPositiveDelta /\ ClaimDeltaSum # 0) =>
               /\ outcome # "exit_degenerate"
               /\ ClaimFpsIsMeanRate(video_fps)
               /\ pc # "phase2" => video_writer # "none"
               /\ video_writer # "none" => writer_fps = video_fps
        /\ ClaimIdentical =>
               /\ outcome = "exit_degenerate"
               /\ video_writer = "none"

C3_Witness ==
    /\ ~timestamp_timing
    /\ ClaimHasPositiveDelta
    /\ ClaimHasNegativeDelta
    /\ video_writer = "open"
    /\ pc = "cfr_loop"

\* C4 as stated: a log of two or more qualifying frames with one common
\* timestamp ends the run with SystemExit(1), whichever the timing mode.
C4_AsStated ==
    (ClaimIdentical /\ pc = "end" /\ exception = "none") =>
        outcome \in {"exit_degenerate", "exit_too_short", "exit_aborted"}

\* C4, amended: in CFR mode a log of two or more qualifying frames with
\* one common timestamp ends the run with SystemExit(1) at the timing gate
\* (no division by zero, no encoder opened); in timestamp_timing mode the
\* gate is skipped.
C4_IdenticalTimestampsCfr ==
    (~timestamp_timing /\ ClaimIdentical) =>
        /\ exception # "zero_division"
        /\ video_writer = "none"
        /\ pc \notin {"phase2", "cfr_open", "cfr_loop"}
        /\ (pc = "end" /\ exception \notin Pass1Failures) =>
               outcome = "exit_degenerate"

C4_Witness ==
    /\ ~timestamp_timing
    /\ ClaimIdentical
    /\ Len(log) = 3
    /\ outcome = "exit_degenerate"

\* C5: with fewer than two qualifying frames the call exits with status 1
\* after the scan and pass 2 never starts: the log is opened at most once,
\* nothing is decoded, no temporary directory exists, no encoder is opened
\* or run, in either timing mode.
C5_TooFewFrames ==
    ClaimCount < 2 =>
        /\ opens <= 1
        /\ decoded = 0
        /\ temp_dir = "none"
        /\ temp_files = {}
        /\ video_writer = "none"
        /\ encode_calls = <<>>
        /\ ffmpeg_runs = 0
        /\ pc \notin {"phase2", "cfr_open", "cfr_loop", "vfr_open",
                      "vfr_loop", "plan"}
        /\ (pc = "end" /\ exception \notin Pass1Failures) =>
               outcome = "exit_too_short"

C5_Witness ==
    /\ timestamp_timing
    /\ ClaimCount = 1
    /\ Len(log) = 3
    /\ outcome = "exit_too_short"
    /\ opens = 1

\* C9: a completed conversion has handed the encoder as many frames as the
\* log holds image messages of the requested topic, which is total_frames;
\* no other message is ever emitted, and the emitted-frame counter never
\* exceeds total_frames.
C9_FrameCount ==
    /\ (outcome = "done" /\ ~timestamp_timing) =>
           /\ Len(appended) = ClaimCount
           /\ total_frames = ClaimCount
    /\ (outcome = "done" /\ timestamp_timing) =>
           /\ Len(encode_calls) = 1
           /\ Len(encode_calls[1].paths) = ClaimCount
           /\ total_frames = ClaimCount
    /\ \A k \in 1..Len(appended) : ClaimQualifies(appended[k].msg)
    /\ \A f \in temp_files : ClaimQualifies(f.frame.msg)
    /\ Len(image_paths) <= ClaimCount
    /\ frame_idx <= total_frames

C9_Witness ==
    /\ outcome = "done"
    /\ ~timestamp_timing
    /\ Len(log) = 3
    /\ Len(appended) = 2
    /\ frame_idx = 2

\* the number a sequence of decimal digits writes
RECURSIVE ClaimNumber(_)
ClaimNumber(ds) ==
    IF ds = <<>> THEN 0
    ELSE 10 * ClaimNumber(SubSeq(ds, 1, Len(ds) - 1)) + ds[Len(ds)]

\* the timestamp of message i in timestamp_timing mode
ClaimStampNs(i) ==
    IF log[i].stamp.kind = "int"
    THEN log[i].stamp.sec * 1000000000 + log[i].stamp.nanosec
    ELSE log[i].log_time

\* C10: frames reach the encoder in log order: the k-th append_data call
\* carries the k-th qualifying message; in VFR image_paths[k] is the file
\* numbered k - 1 with 6 digits, it holds the k-th qualifying message and
\* timestamps_ns[k] is that message's timestamp; encode_vfr gets exactly
\* these paths.
C10_FrameOrder ==
    (appended # <<>> \/ image_paths # <<>>) =>
        LET q == ClaimQual IN
        /\ Len(appended) <= Len(q)
        /\ \A k \in 1..Len(appended) : appended[k].msg = q[k]
        /\ Len(image_paths) <= Len(q)
        /\ Len(timestamps_ns) = Len(image_paths)
        /\ \A k \in 1..Len(image_paths) :
               /\ Len(image_paths[k]) = 6
               /\ ClaimNumber(image_paths[k]) = k - 1
               /\ timestamps_ns[k] = ClaimStampNs(q[k])
               /\ temp_dir = "exists" =>
                      \E f \in temp_files :
                          f.path = image_paths[k] /\ f.frame.msg = q[k]
        /\ \A c \in 1..Len(encode_calls) : encode_calls[c].paths = image_paths

C10_Witness ==
    /\ timestamp_timing
    /\ Len(log) = 3
    /\ ~ClaimQualifies(2)
    /\ Len(image_paths) = 2
    /\ temp_dir = "exists"
    /\ pc = "plan"

(***************************************************************************)
(* Properties of the low-memory prompt and of the ways out of pass 2,      *)
(* checked under SpecLong, whose logs are long enough for the memory       *)
(* check of line 255 to run twice.                                         *)
(***************************************************************************)
\* C11: within one run the low-memory prompt is issued at most once: once
\* memory_warning_shown is set no later memory check prompts again,
\* however many checks find the host short of memory.
C11_PromptAtMostOnce ==
    /\ prompts <= 1
    /\ memory_warning_shown => prompts = 1

\* both memory checks found the host short of memory, the first prompt was
\* answered y and the run went on to its end
C11_Witness ==
    /\ Len(mem_checks) = 2
    /\ mem_checks[1].low
    /\ mem_checks[2].low
    /\ prompts = 1
    /\ outcome = "done"

\* C12 as stated: when the user declines the low-memory prompt the run ends
\* with the temporary frame files removed, the input closed and no output
\* video file left behind, in the VFR and in the CFR branch.
C12_AsStated ==
    outcome = "exit_aborted" =>
        /\ temp_dir # "exists"
        /\ temp_files = {}
        /\ ~handle_open
        /\ output_file = "absent"

\* the CFR run declined at the first check: the writer is closed over the
\* frames appended so far and the file stays
C12_Witness ==
    /\ outcome = "exit_aborted"
    /\ ~timestamp_timing
    /\ video_writer = "closed"
    /\ Len(appended) = MEMORY_CHECK_INTERVAL
    /\ output_file = "partial"

\* C13: in the VFR branch the temporary directory, once created, exists
\* only while pass 2 runs: when the call has ended, by completion, a
\* decoder or file-write error, an ffmpeg failure or a declined memory
\* prompt, it is removed with the frame files in it.
C13_TempDirRemoved ==
    /\ temp_dir = "exists" => pc \in {"vfr_open", "vfr_loop", "plan"}
    /\ pc = "end" => temp_dir \in {"none", "removed"} /\ temp_files = {}
    /\ ~timestamp_timing => temp_dir = "none"

\* the prompt was declined after frame files had been written
C13_Witness ==
    /\ timestamp_timing
    /\ outcome = "exit_aborted"
    /\ Len(image_paths) = MEMORY_CHECK_INTERVAL
    /\ temp_dir = "removed"

(***************************************************************************)
(* Properties of the frames of pass 2, checked under Spec.                 *)
(***************************************************************************)
\* message i is an uncompressed image of zero height or zero width
ClaimZeroDimension(i) ==
    /\ ClaimQualifies(i)
    /\ log[i].schema = "sensor_msgs/msg/Image"
    /\ (log[i].payload.height = 0 \/ log[i].payload.width = 0)

\* C14 as stated: a qualifying uncompressed frame of zero height or zero
\* width is skipped and the run continues with the following frames: the
\* call never ends with the exception that frame's decoding raised.
C14_AsStated ==
    ~(/\ pc = "end"
      /\ outcome = "raised"
      /\ exception = "decode"
      /\ pos < Len(log)
      /\ ClaimZeroDimension(pos + 1))

\* the first frame has zero height: the call has ended on it with the
\* second frame never decoded
C14_Witness ==
    /\ Len(log) = 2
    /\ ClaimZeroDimension(1)
    /\ ClaimQualifies(2)
    /\ pc = "end"
    /\ outcome = "raised"
    /\ exception = "decode"
    /\ pos = 0
    /\ decoded = 1
    /\ frame_idx = 0

\* message i carries no usable header stamp
ClaimLacksStamp(i) == log[i].stamp.kind # "int"

\* C18: with timestamp_timing every saved frame without a usable header
\* stamp is timed by its log time and every stamped frame by
\* sec * 10^9 + nanosec; the missing-stamp warning is printed once when
\* some saved frame lacks the stamp, never otherwise and never twice.
C18_MissingStampFallback ==
    LET q == ClaimQual
        n == Len(timestamps_ns)
        lacking == {k \in 1..n : ClaimLacksStamp(q[k])}
    IN  /\ n <= Len(q)
        /\ \A k \in 1..n :
               timestamps_ns[k] =
                   IF ClaimLacksStamp(q[k]) THEN log[q[k]].log_time
                   ELSE log[q[k]].stamp.sec * 1000000000
                        + log[q[k]].stamp.nanosec
        /\ stamp_warnings = (IF lacking = {} THEN 0 ELSE 1)
        /\ warned_missing_stamp <=> lacking # {}
        /\ ~timestamp_timing => n = 0

\* three frames saved: one without a stamp, one with a malformed stamp and
\* one stamped, and the warning was printed once
C18_Witness ==
    /\ timestamp_timing
    /\ Len(timestamps_ns) = 3
    /\ \E i, j, k \in 1..3 :
           /\ log[i].stamp.kind = "none"
           /\ log[j].stamp.kind = "malformed"
           /\ log[k].stamp.kind = "int"
    /\ stamp_warnings = 1

\* no encoder work has been done
ClaimNoEncoderWork ==
    /\ video_writer = "none"
    /\ writer_fps = NoFps
    /\ appended = <<>>
    /\ closes = 0
    /\ temp_dir = "none"
    /\ temp_files = {}
    /\ image_paths = <<>>
    /\ encode_calls = <<>>
    /\ ffmpeg_runs = 0
    /\ decoded = 0
    /\ output_file = "absent"

\* C19: a run with fewer than 2 frames, or a CFR run whose deltas sum to
\* zero, is ended by the gate with its exit status before any encoder
\* work: the CFR writer is never opened, no frame file is written, ffmpeg
\* is never run and no output file exists.
C19_ValidityErrorsBeforeEncoding ==
    /\ outcome \in {"exit_too_short", "exit_degenerate"} =>
           pc = "end" /\ opens = 1 /\ ClaimNoEncoderWork
    /\ (ClaimCount < 2 \/ (~timestamp_timing /\ ClaimDeltaSum = 0)) =>
           /\ ClaimNoEncoderWork
           /\ pc = "end" /\ exception = "none" =>
                  outcome \in {"exit_too_short", "exit_degenerate"}

\* a CFR run over three frames whose deltas cancel has ended at the gate
C19_Witness ==
    /\ ~timestamp_timing
    /\ ClaimCount = 3
    /\ ClaimHasPositiveDelta
    /\ outcome = "exit_degenerate"
    /\ pc = "end"

\* message i is an uncompressed image labelled bgr8 in any letter case
\* whose data holds 3 bytes per pixel
ClaimIsBgr8(i) ==
    /\ log[i].schema = "sensor_msgs/msg/Image"
    /\ log[i].payload.encoding \in {"bgr8", "BGR8"}
    /\ log[i].payload.nbytes = 3 * log[i].payload.height * log[i].payload.width

\* C20: the channel order of a frame handed to the encoder is reversed
\* exactly when its message is an uncompressed image labelled bgr8 (in
\* any letter case) with 3 channels; every other frame, compressed ones
\* included, keeps its channel order.
C20_ChannelSwap ==
    /\ \A k \in 1..Len(appended) :
           appended[k].swapped <=> ClaimIsBgr8(appended[k].msg)
    /\ \A f \in temp_files :
           f.frame.swapped <=> ClaimIsBgr8(f.frame.msg)

\* an upper-case BGR8 frame was reversed and a compressed frame whose
\* format label reads bgr8 was not
C20_Witness ==
    /\ Len(appended) = 2
    /\ log[1].schema = "sensor_msgs/msg/Image"
    /\ log[1].payload.encoding = "BGR8"
    /\ appended[1].swapped
    /\ log[2].schema = "sensor_msgs/msg/CompressedImage"
    /\ log[2].payload.encoding = "bgr8"
    /\ ~appended[2].swapped

(***************************************************************************)
(* Properties of get_image_topic_list, checked under SpecTopics.           *)
(***************************************************************************)
\* channel c of the summary has one of the two image schemas
ClaimImageChannel(c) ==
    \/ c.schema_id = 1 /\ SchemaName(1) = "sensor_msgs/msg/Image"
    \/ c.schema_id = 2 /\ SchemaName(2) = "sensor_msgs/msg/CompressedImage"

\* the topics of the summary's image channels
ClaimImageTopics ==
    {summary.channels[i].topic :
        i \in {j \in 1..Len(summary.channels) :
                  ClaimImageChannel(summary.channels[j])}}

\* C15: get_image_topic_list returns exactly the topics of the channels
\* whose schema is Image or CompressedImage, each once whatever number of
\* channels share it, never the topic of a channel of another or of no
\* schema however it is named, and the empty list without a summary.
C15_ImageTopicsOnce ==
    topic_pc = "ret" =>
        /\ {topic_result[k] : k \in 1..Len(topic_result)} = ClaimImageTopics
        /\ \A k, l \in 1..Len(topic_result) :
               topic_result[k] = topic_result[l] => k = l
        /\ ~summary.present => topic_result = <<>>

\* an Image and a CompressedImage channel share a topic and a String
\* channel has the other: the shared topic is returned once
C15_Witness ==
    /\ topic_pc = "ret"
    /\ Len(summary.channels) = 3
    /\ summary.channels[1] = Channel(1, "/camera/image", 1)
    /\ summary.channels[2] = Channel(2, "/camera/image", 1)
    /\ summary.channels[3] = Channel(3, "/camera/info", 1)
    /\ topic_list = <<"/camera/image", "/camera/image">>
    /\ topic_result = <<"/camera/image">>

\* C16 as stated: every topic get_image_topic_list returns has at least
\* one image message in the log.
C16_AsStated ==
    topic_pc = "ret" =>
        \A k \in 1..Len(topic_result) :
            \E i \in 1..Len(summary.channels) :
                /\ summary.channels[i].topic = topic_result[k]
                /\ ClaimImageChannel(summary.channels[i])
                /\ summary.channels[i].messages > 0

\* the only channel is an Image channel without messages, and its topic
\* is returned
C16_Witness ==
    /\ topic_pc = "ret"
    /\ summary.channels = <<Channel(1, "/camera/image", 0)>>
    /\ topic_result = <<"/camera/image">>

(***************************************************************************)
(* Properties of the Spinner, checked under SpecLive.                      *)
(***************************************************************************)
\* the main thread is past spinner.stop() (line 299)
ClaimPastScan ==
    pc \in {"gate", "phase2", "vfr_open", "vfr_loop", "plan", "cfr_open",
            "cfr_loop"}

\* the spinner thread was started and has been stopped and joined
ClaimSpinnerOver ==
    spinner_thread # "none" => stop_event /\ spinner_thread = "dead"

\* C17: the spinner thread never outlives pass 1: the stop event is set
\* on every way out of the scan, an exception of the reader included, and
\* the thread has ended before total_frames is evaluated, before the call
\* ends and before pass 2 begins; once the stop event is set the thread
\* terminates.
C17_SpinnerJoined ==
    /\ [](ClaimPastScan => stop_event /\ spinner_thread = "dead")
    /\ [](pc = "end" => ClaimSpinnerOver)
    /\ [](pc = "join" => stop_event)
    /\ [](spinner_thread = "alive" => pc \in {"open1", "scan", "join"})
    /\ [](total_frames # 0 \/ opens > 1 => spinner_thread = "dead")
    /\ (stop_event ~> spinner_thread = "dead")

\* the reader raised during the scan after a frame was counted; the thread
\* was stopped and joined before the exception left the call
C17_Witness ==
    /\ exception = "read"
    /\ outcome = "raised"
    /\ pc = "end"
    /\ Len(timestamps) = 1
    /\ stop_event
    /\ spinner_thread = "dead"

(***************************************************************************)
(* Properties of encode_vfr, checked under SpecEncode.                     *)
(***************************************************************************)
\* C21: for N >= 1 paths and N durations encode_vfr writes 2N + 1 lines:
\* per frame, in order, its file line and then its duration line, and a
\* last file line repeating the last frame; ffmpeg is run once, on the
\* complete manifest.  When the lists differ in length it raises with
\* nothing written and ffmpeg not run.
C21_Manifest ==
    pc = "end" =>
        LET N == Len(image_paths) IN
        /\ Len(encode_calls) = 1
        /\ (N >= 1 /\ Len(durations_ns) = N) =>
               /\ Len(manifest) = 2 * N + 1
               /\ \A k \in 1..N :
                      /\ manifest[2 * k - 1].kind = "file"
                      /\ manifest[2 * k - 1].path = image_paths[k]
                      /\ manifest[2 * k].kind = "duration"
                      /\ manifest[2 * k].ns = durations_ns[k]
               /\ manifest[2 * N + 1].kind = "file"
               /\ manifest[2 * N + 1].path = image_paths[N]
               /\ ffmpeg_runs = 1
               /\ ffmpeg_input = manifest
        /\ Len(durations_ns) # N =>
               /\ outcome = "raised"
               /\ exception = "mismatch"
               /\ manifest = <<>>
               /\ ffmpeg_runs = 0
               /\ output_file = "absent"

\* the call of tests/test_cli.py line 289 has returned: five lines
\* written, ffmpeg run once
C21_Witness ==
    /\ pc = "end"
    /\ Len(image_paths) = 2
    /\ durations_ns = <<100000000, 100000000>>
    /\ image_paths[1] # image_paths[2]
    /\ Len(manifest) = 5
    /\ ffmpeg_runs = 1
    /\ outcome = "done"

(***************************************************************************)
(* Properties of the order of a conversion call, checked under Spec.       *)
(***************************************************************************)
\* the phase a position of convert_to_mp4 belongs to: 1 scan, 2 timing
\* gate, 3 decode and emit, 4 the call has ended
ClaimPhase(p) ==
    CASE p \in {"start", "open1", "scan", "join"} -> 1
      [] p = "gate" -> 2
      [] p \in {"phase2", "vfr_open", "vfr_loop", "plan", "cfr_open",
                "cfr_loop"} -> 3
      [] OTHER -> 4

\* C22: a conversion call goes through scan, timing gate, decode and emit
\* and its end in that order and never back; the log is opened at most
\* twice, once per pass, the second time only after the first handle was
\* closed, and a completed conversion has opened it exactly twice.
C22_PhaseOrder ==
    /\ [](opens <= 2)
    /\ [](ClaimPhase(pc) <= 2 => opens <= 1)
    /\ [](opens = 2 => ClaimPhase(pc) >= 3)
    /\ [](outcome = "done" => opens = 2 /\ ~handle_open)
    /\ [](handle_open => pc \in {"scan", "vfr_loop", "cfr_loop"})
    /\ [][opens' # opens => opens' = opens + 1 /\ ~handle_open]_vars
    /\ [][ClaimPhase(pc') >= ClaimPhase(pc)]_vars

\* a conversion has completed with the log opened twice
C22_Witness ==
    /\ outcome = "done"
    /\ pc = "end"
    /\ opens = 2
    /\ ~handle_open
    /\ Len(appended) = 3

(***************************************************************************)
(* Properties of the timing gate, checked under Spec.                      *)
(***************************************************************************)
\* the gate let the call through: pass 2 is about to begin or has begun
ClaimGatePassed ==
    pc = "phase2" \/ temp_dir # "none" \/ video_writer # "none"

\* C23: in CFR mode the degenerate-timing exit is taken exactly when the
\* mean of the raw deltas of two or more frames is zero, that is when the
\* first and the last timestamp are equal, whether or not the timestamps
\* between them differ; the call then ends before pass 2.  A log of two
\* or more frames is stopped by the gate in no other case.
C23_DegenerateIffMeanZero ==
    AfterGate =>
        /\ outcome = "exit_degenerate" <=>
               (~timestamp_timing /\ ClaimCount >= 2 /\ ClaimDeltaSum = 0)
        /\ outcome = "exit_degenerate" =>
               /\ pc = "end"
               /\ ~ClaimGatePassed
               /\ ClaimTimes[1] = ClaimTimes[ClaimCount]
        /\ (ClaimCount >= 2 /\ outcome # "exit_degenerate") =>
               /\ ClaimGatePassed
               /\ outcome # "exit_too_short"
               /\ exception \notin {"statistics", "zero_division"}
               /\ ~timestamp_timing =>
                      ClaimTimes[1] # ClaimTimes[ClaimCount]

\* timestamps 1, 0, 1 differ and their deltas cancel: the call has ended
\* with the degenerate-timing exit
C23_Witness ==
    /\ ~timestamp_timing
    /\ ClaimCount = 3
    /\ ClaimTimes = <<1, 0, 1>>
    /\ outcome = "exit_degenerate"

(***************************************************************************)
(* Properties of the CFR writer and of the memory guard, checked under     *)
(* SpecLong.                                                               *)
(***************************************************************************)
\* C24: in the CFR branch the writer, once opened, is closed exactly once
\* on every way out of pass 2: after the last frame, and when a decode
\* error, an append error, a reader error or a declined memory prompt
\* ends the loop early; no frame is appended after the close.
C24_WriterClosedOnce ==
    /\ [](closes <= 1)
    /\ [](video_writer = "closed" <=> closes = 1)
    /\ [](video_writer = "open" => pc \in {"cfr_open", "cfr_loop"})
    /\ []((pc = "end" /\ video_writer # "none") => video_writer = "closed")
    /\ [](timestamp_timing => video_writer = "none")
    /\ [][video_writer = "closed" =>
              appended' = appended /\ video_writer' = "closed"]_vars
    /\ [][Len(appended') > Len(appended) => video_writer = "open"]_vars

\* the frame after the first memory check could not be decoded: the
\* writer holds the frames before it and was closed once
C24_Witness ==
    /\ ~timestamp_timing
    /\ outcome = "raised"
    /\ exception = "decode"
    /\ Len(appended) = MEMORY_CHECK_INTERVAL
    /\ video_writer = "closed"
    /\ closes = 1

\* C25: the memory guard works only when the index of the emitted frame
\* is a positive multiple of 100: memory is measured at frames 100, 200,
\* ... and at no other; on every other frame the memory estimate, the
\* warning flag and the prompt count stay what they were; the warning
\* flag never goes back from true to false.
C25_MemoryGuardInterval ==
    /\ [](\A k \in 1..Len(mem_checks) : mem_checks[k].idx = 100 * k)
    /\ [](Len(mem_checks) <= frame_idx \div 100)
    /\ []((prompts > 0 \/ memory_warning_shown \/ current_memory_mb.some)
            => Len(mem_checks) > 0)
    /\ [][(frame_idx' # frame_idx /\ frame_idx' % 100 # 0) =>
              /\ current_memory_mb' = current_memory_mb
              /\ memory_warning_shown' = memory_warning_shown
              /\ prompts' = prompts
              /\ mem_checks' = mem_checks]_vars
    /\ [][memory_warning_shown => memory_warning_shown']_vars

\* fifty frames after the first check, which prompted: the estimate and
\* the flag of that check are still held
C25_Witness ==
    /\ frame_idx = 150
    /\ Len(mem_checks) = 1
    /\ mem_checks[1].low
    /\ memory_warning_shown
    /\ current_memory_mb.some
    /\ prompts = 1

(***************************************************************************)
(* Properties of the CFR frame rate, checked under Spec.                   *)
(***************************************************************************)
\* the first and the last log time of the qualifying messages
ClaimFirstTime == ClaimTimes[1]
ClaimLastTime == ClaimTimes[ClaimCount]

\* C26: the rate the CFR writer is opened with is fixed by the first
\* timestamp, the last timestamp and the frame count N alone:
\* rate * (last - first) = 10^9 * (N - 1), with rate = 10^9 * num / den;
\* it is strictly positive exactly when last > first, and a sequence with
\* last < first passes the gate (with a negative rate).
C26_RateTelescopes ==
    /\ (~timestamp_timing /\ video_writer # "none") =>
           /\ writer_fps.den # 0
           /\ writer_fps.num * (ClaimLastTime - ClaimFirstTime)
                  = (ClaimCount - 1) * writer_fps.den
           /\ writer_fps.num * writer_fps.den > 0
                  <=> ClaimLastTime > ClaimFirstTime
    /\ (~timestamp_timing /\ ClaimCount >= 2 /\ AfterGate
        /\ ClaimLastTime < ClaimFirstTime) =>
           /\ ClaimGatePassed
           /\ video_fps.num * video_fps.den < 0

\* timestamps 2, 0, 1: the writer was opened with the rate 10^9 * 2 / -1
C26_Witness ==
    /\ ~timestamp_timing
    /\ ClaimCount = 3
    /\ ClaimTimes = <<2, 0, 1>>
    /\ video_writer = "open"
    /\ writer_fps.num = 2
    /\ writer_fps.den = 0 - 1

(***************************************************************************)
(* Properties of build_vfr_durations_ns on wide timestamps, checked under  *)
(* SpecWide.                                                               *)
(***************************************************************************)
\* the reference the loop starts from
ClaimWideReference == WideInitialReference(WideRawDeltas(wide_ts))

\* the median of the positive deltas truncated to an integer, or the
\* fallback of 33,333,333 ns when there is none
ClaimExactReference ==
    LET positive == WideSorted(WidePositiveDeltas(WideRawDeltas(wide_ts)))
        n == Len(positive)
    IN  IF n = 0 THEN WideOf(33333333)
        ELSE IF n % 2 = 1 THEN positive[(n + 1) \div 2]
        ELSE WideHalf(WideAdd(positive[n \div 2], positive[n \div 2 + 1]))

\* the raw delta d clamped against the reference r: r for d <= 0,
\* max(10 r, r) for d above it, d otherwise
ClaimExactClamp(d, r) ==
    LET max_gap == WideMax(WideTimes(r, 10), r) IN
    IF ~WideIsPositive(d) THEN r
    ELSE IF WideLess(max_gap, d) THEN max_gap
    ELSE d

\* C6: for two or more timestamps, each emitted duration is the raw delta
\* clamped against the running reference (the reference itself for a
\* delta <= 0, max(10 r, r) for a delta above it, the delta otherwise),
\* the reference is the duration emitted last, and the trailing duration
\* repeats the final reference; [0,100,100,5000] gives [100,100,1000,1000].
C6_AsStated ==
    (wide_pc = "ret" /\ Len(wide_ts) >= 2) =>
        LET N == Len(wide_ts)
            deltas == WideRawDeltas(wide_ts)
        IN  /\ Len(wide_durations) = N
            /\ \A i \in 1..(N - 1) :
                   wide_durations[i] =
                       ClaimExactClamp(deltas[i],
                                       IF i = 1 THEN ClaimWideReference
                                       ELSE wide_durations[i - 1])
            /\ wide_durations[N] = wide_durations[N - 1]
            /\ wide_ts = <<WideOf(0), WideOf(100), WideOf(100), WideOf(5000)>>
                   => wide_durations = <<WideOf(100), WideOf(100),
                                         WideOf(1000), WideOf(1000)>>

\* gaps of 2^51 + 3, 2^51 + 3 and 10 * (2^51 + 3) + 3: the last gap is cut
\* to 10 * (2^51 + 3) + 2, the double nearest to ten times the reference
C6_RoundedCap ==
    /\ wide_pc = "ret"
    /\ Len(wide_ts) = 4
    /\ WideRawDeltas(wide_ts) =
           <<WideGap, WideGap,
             WideAdd(WideTimes(WideGap, MAX_GAP_MULTIPLIER), WideOf(3))>>
    /\ wide_durations[2] = WideGap
    /\ wide_durations[3] =
           WideAdd(WideTimes(WideGap, MAX_GAP_MULTIPLIER), WideOf(2))

\* C7: the reference the loop starts with is the truncated median of the
\* positive deltas (the fallback when none is positive): it is the
\* duration given to a first frame whose delta is not positive, and
\* [0, 1000000, 1000100, 1000200] gives [1000, 100, 100, 100].
C7_AsStated ==
    /\ (wide_pc = "ret" /\ Len(wide_ts) >= 2
          /\ ~WideIsPositive(WideRawDeltas(wide_ts)[1]))
           => wide_durations[1] = ClaimExactReference
    /\ (wide_pc = "ret"
          /\ wide_ts = <<WideOf(0), WideOf(1000000), WideOf(1000100),
                          WideOf(1000200)>>)
           => wide_durations = <<WideOf(1000), WideOf(100), WideOf(100),
                                 WideOf(100)>>

\* gaps of 0, 2^53 + 1 and 2^53 + 2: the median of the two positive gaps
\* is 2^53 + 1.5, yet the first frame gets 2^53 + 2
C7_RoundedMedian ==
    /\ wide_pc = "ret"
    /\ Len(wide_ts) = 4
    /\ WideRawDeltas(wide_ts) =
           <<WideOf(0), WideOdd, WideAdd(WideOdd, WideOf(1))>>
    /\ wide_durations[1] = WideAdd(WideOdd, WideOf(1))

\* next <= 10 * prev
ClaimTenfold(next, prev) == WideLeq(next, WideTimes(prev, 10))

\* C27: in the list returned for N >= 2 timestamps every duration but the
\* first and the last is at most 10 times the one before it, the first is
\* at most 10 times the initial median reference and the last equals the
\* one before it.
C27_AsStated ==
    (wide_pc = "ret" /\ Len(wide_ts) >= 2) =>
        LET N == Len(wide_ts) IN
        /\ Len(wide_durations) = N
        /\ ClaimTenfold(wide_durations[1], ClaimWideReference)
        /\ \A i \in 2..(N - 1) :
               ClaimTenfold(wide_durations[i], wide_durations[i - 1])
        /\ wide_durations[N] = wide_durations[N - 1]

\* gaps of 2^51 + 3, 2^51 + 3 and 10 * (2^51 + 3) + 2: the double nearest to
\* 10 * (2^51 + 3) is 2 more than it, so the last gap is kept although it
\* is more than 10 times the duration before it
C27_Witness ==
    /\ wide_pc = "ret"
    /\ Len(wide_ts) = 4
    /\ WideRawDeltas(wide_ts) =
           <<WideGap, WideGap,
             WideAdd(WideTimes(WideGap, MAX_GAP_MULTIPLIER), WideOf(2))>>
    /\ wide_durations[2] = WideGap
    /\ wide_durations[3] =
           WideAdd(WideTimes(WideGap, MAX_GAP_MULTIPLIER), WideOf(2))

(***************************************************************************)
(* The VFR branch without a usable timing, checked under SpecLong.         *)
(***************************************************************************)
\* build_vfr_durations_ns has returned to convert_to_mp4 for at least two
\* stamps none of which lies after the one before it
ClaimNoPositiveDelta ==
    /\ pc = "plan"
    /\ vfr_pc = "ret"
    /\ Len(timestamps_ns) >= 2
    /\ \A i \in 1..(Len(timestamps_ns) - 1) :
           timestamps_ns[i + 1] <= timestamps_ns[i]

\* the planner's answer to that: one fallback duration per frame
ClaimAllFallback ==
    durations_ns = [i \in 1..Len(timestamps_ns) |-> 33333333]

\* encode_vfr was called once, with one strictly positive duration for
\* each of the total_frames frames
ClaimEncoderReached ==
    /\ Len(encode_calls) = 1
    /\ Len(encode_calls[1].paths) = total_frames
    /\ Len(encode_calls[1].durations) = total_frames
    /\ \A i \in 1..Len(encode_calls[1].durations) :
           encode_calls[1].durations[i] > 0

ClaimWritten == 0..Len(timestamps)

\* the count of the frames, once line 301 has set it
ClaimTotalSet == pc \in {"phase2", "vfr_open", "vfr_loop", "plan", "cfr_open",
                         "cfr_loop"} \/ (pc = "end" /\ total_frames > 0)

\* C29: every count the spinner thread reads is one the scanning thread
\* wrote, the counts it reads never decrease, and none exceeds the final
\* total_frames (the counts written only grow up to it).
C29_SpinnerReads ==
    /\ [](spinner_thread = "alive" => spin_shown \in ClaimWritten)
    /\ [](spinner_count \in ClaimWritten)
    /\ [][spinner_thread' = "alive" => spin_shown' >= spin_shown]_vars
    /\ [][Len(timestamps') >= Len(timestamps)]_vars
    /\ [](Len(timestamps) <= ClaimCount)
    /\ [](ClaimTotalSet => total_frames = Len(timestamps))

\* the spinner thread shows 2 frames while the scan has counted a third
C29_Witness ==
    /\ pc = "scan"
    /\ spinner_thread = "alive"
    /\ spin_shown = 2
    /\ spinner_count = 3
    /\ Len(timestamps) = 3

(***************************************************************************)
(* The ways convert_to_mp4 ends, checked under SpecTerm.                   *)
(***************************************************************************)
\* Done, the two exits of the gate, the declined prompt, an exception
ClaimOutcomes ==
    {"done", "exit_too_short", "exit_degenerate", "exit_aborted", "raised"}

\* the lists of the VFR branch have one entry per saved frame, and every
\* call of encode_vfr got lists of one length
ClaimEqualLists ==
    /\ Len(image_paths) = Len(timestamps_ns)
    /\ (pc = "plan" /\ vfr_pc = "ret") => Len(durations_ns) = Len(image_paths)
    /\ \A k \in 1..Len(encode_calls) :
           Len(encode_calls[k].paths) = Len(encode_calls[k].durations)

\* C30: every call of convert_to_mp4 over a finite log ends, in exactly one
\* of the five outcomes, which then stays; when it has ended the spinner
\* thread has stopped; encode_vfr is only ever called with lists of equal
\* length, so its count-mismatch error is never raised.
C30_OneOutcome ==
    /\ <>(pc = "end")
    /\ [](pc = "end" <=> outcome \in ClaimOutcomes)
    /\ [](pc # "end" <=> outcome = "running")
    /\ [][outcome # "running" => outcome' = outcome]_vars
    /\ [](pc = "end" => ClaimSpinnerOver)
    /\ [](ClaimEqualLists /\ exception # "mismatch")

\* the low-memory prompt was declined at frame 100 of the VFR branch: the
\* call has ended, the spinner thread is dead and encode_vfr was not called
C30_Witness ==
    /\ pc = "end"
    /\ outcome = "exit_aborted"
    /\ timestamp_timing
    /\ spinner_thread = "dead"
    /\ Len(image_paths) = MEMORY_CHECK_INTERVAL
    /\ Len(timestamps_ns) = MEMORY_CHECK_INTERVAL
    /\ encode_calls = <<>>

====
